---- MODULE Spec2Model ----
(***************************************************************************)
(* Model of the portfolio screen of the BPP mobile front-end               *)
(* (src/app/(tabs)/portfolio.tsx): the screen state held in React hooks,   *)
(* the asynchronous loadPositions request, the dual-mode (NET / BROKER)    *)
(* totals reduction and the per-position row view.                         *)
(*                                                                         *)
(* JavaScript values received from the server are modelled as tagged       *)
(* records [t, v] so that the coercions the code applies (Number(x) || 0,  *)
(* relational operators, toFixed, x !== null) are computed as JavaScript   *)
(* computes them.  Numbers are integers (IDR amounts); the one division    *)
(* of the code (pnlPercent) is kept as an exact fraction.                  *)
(***************************************************************************)
EXTENDS Integers, Sequences, FiniteSets, TLC

\* Longest position list a response carries.
MaxLen == 2

(***************************************************************************)
(* JavaScript values                                                       *)
(***************************************************************************)
Num(n) == [t |-> "number", v |-> n]
\* a numeric string such as "2"
NumStr(n) == [t |-> "numstr", v |-> n]
\* a string that is not a numeral, such as "abc"
Str == [t |-> "string", v |-> 0]
\* the value of a key that is missing from the record
Undefined == [t |-> "undefined", v |-> 0]
Null == [t |-> "null", v |-> 0]
True == [t |-> "boolean", v |-> 1]
NaN == [t |-> "nan", v |-> 0]

\* Number(x): the ECMAScript ToNumber conversion.
ToNumber(x) ==
  CASE x.t = "number"    -> x
    [] x.t = "numstr"    -> Num(x.v)
    [] x.t = "boolean"   -> Num(x.v)
    [] x.t = "null"      -> Num(0)
    [] x.t = "string"    -> NaN
    [] x.t = "undefined" -> NaN
    [] x.t = "nan"       -> NaN

\* mutant: typeof x === 'number' ? x : 0
NumberOrZero_TypeofOnly(x) == IF x.t = "number" THEN x.v ELSE 0

\* Number(x) || 0 : NaN and 0 are falsy, every other number is kept.
NumberOrZero(x) ==
  LET n == ToNumber(x) IN IF n.t = "nan" THEN 0 ELSE n.v

\* x > 0, x < 0, x >= 0 on arbitrary values: ToNumber, and false on NaN.
JsGt0(x) == LET n == ToNumber(x) IN n.t = "number" /\ n.v > 0
JsLt0(x) == LET n == ToNumber(x) IN n.t = "number" /\ n.v < 0
JsGe0(x) == LET n == ToNumber(x) IN n.t = "number" /\ n.v >= 0

\* Math.abs(x)
MathAbs(x) ==
  LET n == ToNumber(x)
  IN IF n.t = "nan" THEN NaN ELSE Num(IF n.v < 0 THEN 0 - n.v ELSE n.v)

\* x.toFixed(d) exists on numbers only; on any other value the call raises
\* a TypeError.
ToFixedRaises(x) == x.t \notin {"number", "nan"}
ToFixed(x, d) == [digits |-> d, of |-> x]

(***************************************************************************)
(* Fractions: the result of the floating-point division of two integers.   *)
(***************************************************************************)
RECURSIVE Gcd(_, _)
Gcd(a, b) == IF b = 0 THEN a ELSE Gcd(b, a % b)

Abs(a) == IF a < 0 THEN 0 - a ELSE a

Frac(n, d) ==
  LET g == Gcd(Abs(n), Abs(d))
      s == IF d < 0 THEN 0 - 1 ELSE 1
  IN [k |-> "finite", n |-> (s * n) \div g, d |-> (s * d) \div g]

FracZero == [k |-> "finite", n |-> 0, d |-> 1]

\* (a / b) * 100 in IEEE arithmetic: x/0 is NaN for x = 0, else +-Infinity.
JsDivTimes100(a, b) ==
  IF b = 0
    THEN IF a = 0 THEN [k |-> "NaN", n |-> 0, d |-> 1]
         ELSE IF a > 0 THEN [k |-> "Infinity", n |-> 0, d |-> 1]
         ELSE [k |-> "-Infinity", n |-> 0, d |-> 1]
    ELSE Frac(a * 100, b)

(***************************************************************************)
(* Addition of numbers.  A JavaScript number is an IEEE double: an integer *)
(* is exact up to 2^53 in magnitude and a sum beyond that is rounded to    *)
(* the nearest representable value, ties to even.  The model keeps the     *)
(* rounding and scales the mantissa down to MantissaBits bits.             *)
(***************************************************************************)
\* Bits of the mantissa (53 in a double).
MantissaBits == 10

RECURSIVE Pow2(_)
Pow2(n) == IF n = 0 THEN 1 ELSE 2 * Pow2(n - 1)

\* Every integer up to MaxExact in magnitude is representable.
MaxExact == Pow2(MantissaBits)

RECURSIVE Spacing(_)
\* The distance between neighbouring representable values at magnitude a.
Spacing(a) == IF a < MaxExact THEN 1 ELSE 2 * Spacing(a \div 2)

\* The representable value nearest to the integer x, ties to even.
RoundToNearest(x) ==
  LET a  == Abs(x)
      sp == Spacing(a)
      q  == a \div sp
      r  == a % sp
      m  == IF 2 * r < sp THEN q * sp
            ELSE IF 2 * r > sp THEN (q + 1) * sp
            ELSE IF q % 2 = 0 THEN q * sp ELSE (q + 1) * sp
  IN IF x < 0 THEN 0 - m ELSE m

\* mutant: = written for +=
JsAdd_Overwrite(a, b) == b

\* a + b on numbers (the += of lines 119-127)
JsAdd(a, b) ==
  LET sum == a + b
  IN IF sum <= MaxExact /\ sum >= 0 - MaxExact THEN sum
     ELSE RoundToNearest(sum)

(***************************************************************************)
(* PositionRow (portfolio.tsx:25-46) and the records the server sends      *)
(***************************************************************************)
PnlModes == {"NET", "BROKER"}

\* One open position with a gain: the record of the specification's
\* scenarios A and B.
PositionBTC ==
  [symbol |-> "BTC", amount |-> Num(1),
   current_price_idr |-> Num(100), current_value_idr |-> Num(100),
   total_buy_idr |-> Num(80), total_sell_idr |-> Num(0),
   net_invested_idr |-> Num(80), net_pnl_idr |-> Num(20),
   net_pnl_percent |-> Num(25), net_avg_entry_price_idr |-> Num(80),
   broker_cost_basis_idr |-> Num(50), broker_avg_entry_price_idr |-> Num(50),
   broker_realized_pnl_idr |-> Num(5), broker_unrealized_pnl_idr |-> Num(10),
   broker_unrealized_pnl_percent |-> Num(20)]

\* A holding received without any completed buy: no cost in either view,
\* no average entry price, a non-zero P&L.
PositionETH ==
  [symbol |-> "ETH", amount |-> Num(2),
   current_price_idr |-> Num(3), current_value_idr |-> Num(6),
   total_buy_idr |-> Num(0), total_sell_idr |-> Num(0),
   net_invested_idr |-> Num(0), net_pnl_idr |-> Num(6),
   net_pnl_percent |-> Num(0), net_avg_entry_price_idr |-> Null,
   broker_cost_basis_idr |-> Num(0), broker_avg_entry_price_idr |-> Null,
   broker_realized_pnl_idr |-> Num(0), broker_unrealized_pnl_idr |-> Num(6),
   broker_unrealized_pnl_percent |-> Num(0)]

\* A position at a loss whose server-side figures are negative.
PositionSOL ==
  [symbol |-> "SOL", amount |-> Num(4),
   current_price_idr |-> Num(10), current_value_idr |-> Num(40),
   total_buy_idr |-> Num(70), total_sell_idr |-> Num(90),
   net_invested_idr |-> Num(0 - 20), net_pnl_idr |-> Num(0 - 30),
   net_pnl_percent |-> Num(0 - 43), net_avg_entry_price_idr |-> Num(7),
   broker_cost_basis_idr |-> Num(0 - 50), broker_avg_entry_price_idr |-> Num(9),
   broker_realized_pnl_idr |-> Num(0 - 8), broker_unrealized_pnl_idr |-> Num(0 - 10),
   broker_unrealized_pnl_percent |-> Num(0 - 5)]

WellTypedPositions == {PositionBTC, PositionETH, PositionSOL}

\* The fields declared number | null.
EntryPriceFields == {"net_avg_entry_price_idr", "broker_avg_entry_price_idr"}

\* The fields that belong to one accounting view only.
NetFields ==
  {"total_buy_idr", "total_sell_idr", "net_invested_idr", "net_pnl_idr",
   "net_pnl_percent", "net_avg_entry_price_idr"}
BrokerFields ==
  {"broker_cost_basis_idr", "broker_avg_entry_price_idr",
   "broker_realized_pnl_idr", "broker_unrealized_pnl_idr",
   "broker_unrealized_pnl_percent"}

\* What a loosely typed payload can carry in place of a number.
NonNumbers == {Undefined, Null, Str, NumStr(2), True}

\* The fields the aggregation reads through Number(x) || 0.
SummedFields ==
  {"current_value_idr", "total_buy_idr", "net_pnl_idr",
   "broker_cost_basis_idr", "broker_unrealized_pnl_idr",
   "broker_realized_pnl_idr"}

\* The fields the row calls toFixed on.
FixedFields == {"amount", "net_pnl_percent", "broker_unrealized_pnl_percent"}

\* The ways one field of a record can be malformed: any non-number in a
\* summed field, a missing or string value where a method is called, a
\* missing or null entry price.
Malformations ==
  (SummedFields \X NonNumbers)
    \cup (FixedFields \X {Undefined, NumStr(2)})
    \cup (EntryPriceFields \X {Undefined, Null})

\* A position exactly at break-even in one of the two views.
BreakEven == {"net_pnl_idr", "broker_unrealized_pnl_idr"} \X {Num(0)}

SymbolsOf(l) == {l[i].symbol : i \in 1..Len(l)}

UniqueSymbols(l) == Cardinality(SymbolsOf(l)) = Len(l)

RECURSIVE ListsUpTo(_, _)
\* The sequences of at most n records of S.
ListsUpTo(S, n) ==
  IF n = 0 THEN {<<>>}
  ELSE LET shorter == ListsUpTo(S, n - 1)
       IN shorter \cup
          {Append(l, p) : l \in {m \in shorter : Len(m) = n - 1}, p \in S}

\* The well-typed position lists: keyed uniquely by symbol.
WellTypedLists ==
  {l \in ListsUpTo(WellTypedPositions, MaxLen) : UniqueSymbols(l)}

\* The position lists a response can carry: a well-typed list, or one whose
\* first record, the BTC position, has one field replaced by a non-number or
\* is at break-even.
PositionLists ==
  WellTypedLists \cup
    {[l EXCEPT ![1][m[1]] = m[2]] :
       l \in {w \in WellTypedLists : Len(w) > 0 /\ w[1] = PositionBTC},
       m \in Malformations \cup BreakEven}

(***************************************************************************)
(* formatIDR (portfolio.tsx:48-58): Intl.NumberFormat converts its         *)
(* argument with ToNumber and prints it with no fraction digits.           *)
(***************************************************************************)
formatIDR(value) == [currency |-> "IDR", number |-> ToNumber(value)]

(***************************************************************************)
(* totals (portfolio.tsx:112-134)                                          *)
(***************************************************************************)
\* mutant: the price is summed instead of the value
ValueTerm_Price(p) == NumberOrZero(p.current_price_idr)

\* line 119
ValueTerm(p) == NumberOrZero(p.current_value_idr)

\* mutant: NET sums net_invested, as the comment of lines 109-111 words it
BaseTerm_NetInvested(p, pnlMode) ==
  IF pnlMode = "NET" THEN NumberOrZero(p.net_invested_idr)
  ELSE NumberOrZero(p.broker_cost_basis_idr)

\* lines 122 and 125
BaseTerm(p, pnlMode) ==
  IF pnlMode = "NET" THEN NumberOrZero(p.total_buy_idr)
  ELSE NumberOrZero(p.broker_cost_basis_idr)

\* lines 123 and 126
PnlTerm(p, pnlMode) ==
  IF pnlMode = "NET" THEN NumberOrZero(p.net_pnl_idr)
  ELSE NumberOrZero(p.broker_unrealized_pnl_idr)

\* mutant: realized P&L accumulated outside the else branch
RealizedTerm_BothModes(p, pnlMode) == NumberOrZero(p.broker_realized_pnl_idr)

\* mutant: the unrealized P&L accumulated as realized
RealizedTerm_Unrealized(p, pnlMode) ==
  IF pnlMode = "NET" THEN 0
  ELSE NumberOrZero(p.broker_unrealized_pnl_idr)

\* line 127: accumulated in the else branch only
RealizedTerm(p, pnlMode) ==
  IF pnlMode = "NET" THEN 0
  ELSE NumberOrZero(p.broker_realized_pnl_idr)

\* mutant: no guard on the division
PnlPercentOf_Unguarded(base, pnlValue) == JsDivTimes100(pnlValue, base)

\* mutant: base >= 0 instead of base > 0
PnlPercentOf_GuardGe(base, pnlValue) ==
  IF base >= 0 THEN JsDivTimes100(pnlValue, base) ELSE FracZero

\* line 131
PnlPercentOf(base, pnlValue) ==
  IF base > 0 THEN JsDivTimes100(pnlValue, base) ELSE FracZero

\* the accumulators of lines 113-116
ZeroAcc == [totalValue |-> 0, base |-> 0, pnlValue |-> 0, realizedTotal |-> 0]

RECURSIVE ForEach(_, _, _, _)
\* positions.forEach from index i on, in list order (lines 118-129).  The
\* accumulators are bound as the value a before the record is added, so that
\* each record is added once.
ForEach(positions, pnlMode, i, acc) ==
  IF i > Len(positions) THEN acc
  ELSE LET p == positions[i]
           Added(a) ==
             [totalValue    |-> JsAdd(a.totalValue, ValueTerm(p)),
              base          |-> JsAdd(a.base, BaseTerm(p, pnlMode)),
              pnlValue      |-> JsAdd(a.pnlValue, PnlTerm(p, pnlMode)),
              realizedTotal |->
                JsAdd(a.realizedTotal, RealizedTerm(p, pnlMode))]
       IN CHOOSE result \in
            {ForEach(positions, pnlMode, i + 1, Added(a)) : a \in {acc}} : TRUE

Totals(positions, pnlMode) ==
  LET acc == ForEach(positions, pnlMode, 1, ZeroAcc)
  IN [totalValue    |-> acc.totalValue,
      base          |-> acc.base,
      pnlValue      |-> acc.pnlValue,
      pnlPercent    |-> PnlPercentOf(acc.base, acc.pnlValue),
      realizedTotal |-> acc.realizedTotal]

(***************************************************************************)
(* PositionRowItem (portfolio.tsx:290-406)                                 *)
(***************************************************************************)
POSITIVE == "#22C55E"
NEGATIVE == "#EF4444"
TEXT_MUTED == "#9CA3AF"

\* line 321
MainPnlValue(position, pnlMode) ==
  IF pnlMode = "NET" THEN position.net_pnl_idr
  ELSE position.broker_unrealized_pnl_idr

\* mutant: the percentage of the net view in both modes
MainPnlPercent_AlwaysNet(position, pnlMode) == position.net_pnl_percent

\* lines 322-324
MainPnlPercent(position, pnlMode) ==
  IF pnlMode = "NET" THEN position.net_pnl_percent
  ELSE position.broker_unrealized_pnl_percent

\* lines 330-332
AvgEntry(position, pnlMode) ==
  IF pnlMode = "NET" THEN position.net_avg_entry_price_idr
  ELSE position.broker_avg_entry_price_idr

\* line 352: avgEntry !== null
AvgEntryRendered(avgEntry) == avgEntry.t # "null"

\* lines 326-327
PnlColor(mainPnlValue) ==
  IF JsGt0(mainPnlValue) THEN POSITIVE
  ELSE IF JsLt0(mainPnlValue) THEN NEGATIVE ELSE TEXT_MUTED

\* mutant: + for strictly positive values only
Sign_Strict(mainPnlValue) == IF JsGt0(mainPnlValue) THEN "+" ELSE ""

\* line 328
Sign(mainPnlValue) == IF JsGe0(mainPnlValue) THEN "+" ELSE ""

\* One <Text> line of the dropdown detail.
DetailLine(label, sign, color, amount, percent) ==
  [label |-> label, sign |-> sign, color |-> color, amount |-> amount,
   percent |-> percent]

\* lines 363-403: the lines of the dropdown detail
DetailLines(position, pnlMode) ==
  LET sign == Sign(MainPnlValue(position, pnlMode))
      pnlColor == PnlColor(MainPnlValue(position, pnlMode))
  IN IF pnlMode = "NET"
     THEN << DetailLine("Current value", "", TEXT_MUTED,
               formatIDR(position.current_value_idr), <<>>),
             DetailLine("Total buys", "", TEXT_MUTED,
               formatIDR(position.total_buy_idr), <<>>),
             DetailLine("Total sells", "", TEXT_MUTED,
               formatIDR(position.total_sell_idr), <<>>),
             DetailLine("Net invested", "", TEXT_MUTED,
               formatIDR(position.net_invested_idr), <<>>),
             DetailLine("P&L (net)", sign, pnlColor,
               formatIDR(MathAbs(position.net_pnl_idr)),
               <<ToFixed(position.net_pnl_percent, 2)>>) >>
     ELSE << DetailLine("Current value", "", TEXT_MUTED,
               formatIDR(position.current_value_idr), <<>>),
             DetailLine("Cost basis (open)", "", TEXT_MUTED,
               formatIDR(position.broker_cost_basis_idr), <<>>),
             DetailLine("Realized P&L",
               IF JsGe0(position.broker_realized_pnl_idr) THEN "+" ELSE "-",
               TEXT_MUTED,
               formatIDR(MathAbs(position.broker_realized_pnl_idr)), <<>>),
             DetailLine("Unrealized P&L", sign, pnlColor,
               formatIDR(MathAbs(position.broker_unrealized_pnl_idr)),
               <<ToFixed(position.broker_unrealized_pnl_percent, 2)>>) >>

\* What rendering one row produces.  raises: a method call of the render
\* (amount.toFixed(8), line 341; mainPnlPercent.toFixed(2), line 350; the
\* toFixed of the detail, lines 383 and 398) throws a TypeError.
PositionRowItem(position, expanded, pnlMode) ==
  LET mainPnlValue   == MainPnlValue(position, pnlMode)
      mainPnlPercent == MainPnlPercent(position, pnlMode)
      avgEntry       == AvgEntry(position, pnlMode)
  IN [raises        |-> \/ ToFixedRaises(position.amount)
                        \/ ToFixedRaises(mainPnlPercent)
                        \/ /\ expanded
                           /\ ToFixedRaises(IF pnlMode = "NET"
                                THEN position.net_pnl_percent
                                ELSE position.broker_unrealized_pnl_percent),
      symbol        |-> position.symbol,
      amountText    |-> ToFixed(position.amount, 8),
      priceLine     |-> formatIDR(position.current_price_idr),
      pnlValue      |-> mainPnlValue,
      pnlColor      |-> PnlColor(mainPnlValue),
      sign          |-> Sign(mainPnlValue),
      pnlPercent    |-> mainPnlPercent,
      percentText   |-> ToFixed(mainPnlPercent, 2),
      avgEntry      |-> avgEntry,
      avgEntryShown |-> AvgEntryRendered(avgEntry),
      avgEntryText  |-> formatIDR(avgEntry),
      expanded      |-> expanded,
      detail        |-> IF expanded THEN DetailLines(position, pnlMode)
                        ELSE <<>>]

(***************************************************************************)
(* The summary card (portfolio.tsx:137-148 and 191-238)                    *)
(***************************************************************************)
\* mutant: zero coloured as a gain
TotalColor_GainAtZero(value) ==
  IF value >= 0 THEN POSITIVE ELSE NEGATIVE

\* lines 137-138 and 224-229
TotalColor(value) ==
  IF value > 0 THEN POSITIVE ELSE IF value < 0 THEN NEGATIVE ELSE TEXT_MUTED

\* lines 208 and 233
SummarySign(value) == IF value >= 0 THEN "+" ELSE ""

\* line 211: pnlPercent >= 0 on the quotient of line 131
PercentSign(pnlPercent) ==
  IF \/ pnlPercent.k = "Infinity"
     \/ pnlPercent.k = "finite" /\ pnlPercent.n >= 0
    THEN "+" ELSE ""

\* lines 140-148
BaseLabel(mode) ==
  IF mode = "NET" THEN "Total cost (lifetime)"
  ELSE "Cost basis (open positions)"
PnlLabel(mode) ==
  IF mode = "NET" THEN "P&L (lifetime, all trades)"
  ELSE "Unrealized P&L (open positions)"

\* lines 191-238: what the card shows for the totals t in the given mode
SummaryCard(t, mode) ==
  [totalValue  |-> formatIDR(Num(t.totalValue)),
   baseLabel   |-> BaseLabel(mode),
   base        |-> formatIDR(Num(t.base)),
   pnlLabel    |-> PnlLabel(mode),
   pnlColor    |-> TotalColor(t.pnlValue),
   pnlSign     |-> SummarySign(t.pnlValue),
   pnl         |-> formatIDR(Num(t.pnlValue)),
   percentSign |-> PercentSign(t.pnlPercent),
   percent     |-> t.pnlPercent,
   realized    |-> IF mode = "BROKER"
                     THEN << [color |-> TotalColor(t.realizedTotal),
                              sign  |-> SummarySign(t.realizedTotal),
                              text  |-> formatIDR(Num(t.realizedTotal))] >>
                     ELSE <<>>]

\* lines 191-192: the card is rendered unconditionally
SummaryRendered(ld, err) == TRUE

(***************************************************************************)
(* useMemo (portfolio.tsx:112 and 134)                                     *)
(***************************************************************************)
\* A truthy json.positions that is not an array (an object, a string): a
\* value different from every list of positions.
NotAList == <<[symbol |-> "<not a list>"]>>

\* positions.forEach exists (line 118): the value is an array.
IsList(pos) == pos # NotAList

\* mutant: pnlMode left out of the dependency list
UseMemo_PositionsOnly(m, pos, mode) ==
  IF m.positions = pos THEN m
  ELSE [positions |-> pos, pnlMode |-> mode, value |-> Totals(pos, mode)]

\* The memo cell after a render with the dependencies [pos, mode]: the
\* factory runs again when a dependency has changed.
\* When positions is not an array the factory throws at positions.forEach
\* and the cell keeps what it held.
UseMemo(m, pos, mode) ==
  IF m.positions = pos /\ m.pnlMode = mode THEN m
  ELSE IF ~IsList(pos) THEN m
  ELSE [positions |-> pos, pnlMode |-> mode, value |-> Totals(pos, mode)]

(***************************************************************************)
(* PortfolioScreen (portfolio.tsx:60-288): state                           *)
(***************************************************************************)
VARIABLES
  positions,       \* useState<PositionRow[]>([])            line 61
  loading,         \* useState(true)                         line 62
  refreshing,      \* useState(false)                        line 63
  error,           \* useState<string | null>(null)          line 64
  expandedSymbol,  \* useState<string | null>(null)          line 65
  pnlMode,         \* useState<PnlMode>('NET')               line 66
  authToken,       \* AsyncStorage item 'authToken'
  requests,        \* the invocations of loadPositions that have not returned
  effectPending,   \* the mount effect (lines 100-102) has not run yet
  crashed,         \* a render of the screen has thrown
  shownLatest,     \* history: the last invocation to return was the one
                   \* issued last
  memo,            \* the cell of useMemo (line 112): dependencies and value
  outcome          \* history: how the invocation that returned last ended,
                   \* "pending" from the moment a new one is issued

\* The state of the other screens, one record of state hooks each.
VARIABLES
  active,          \* the screen in the foreground
  balance,         \* BalanceScreen (balance.tsx:68-84)
  trade,           \* TradeScreen
  home,            \* DashboardScreen (home.tsx)
  avatar,          \* ProfileAvatarEditScreen
  auth,            \* the login and register screen (index.tsx)
  password         \* PasswordChangeScreen (password-change.tsx)

appVars == <<active, balance, trade, home, avatar, auth, password>>

\* the state hooks of the portfolio screen and the stored credential
portfolioVars ==
  <<positions, loading, refreshing, error, expandedSymbol, pnlMode,
    authToken, requests, effectPending, crashed, shownLatest, memo, outcome>>

vars == <<positions, loading, refreshing, error, expandedSymbol, pnlMode,
          authToken, requests, effectPending, crashed, shownLatest, memo,
          outcome, appVars>>

\* null for error, expandedSymbol and the stored token
NoError == "<null>"
NoSymbol == "<null>"
NoToken == "<null>"
Token == "token"

NotAuthenticated == "Not authenticated. Please log in again."
FailedToLoad == "Failed to load portfolio."
SomethingWentWrong == "Something went wrong."
\* the messages of the errors fetch() and res.json() throw
NetworkRequestFailed == "Network request failed"
JsonParseError == "JSON Parse error"
NullBodyError == "Cannot read property 'positions' of null"

\* message of a non-OK response body; "" when the body has none
ServerMessages == {"", "Invalid token", NotAuthenticated}

\* What the awaited fetch / res.json() of lines 80-85 can produce.
Responses ==
  {[kind |-> "reject", ok |-> FALSE, message |-> "", positions |-> <<>>,
    hasPositions |-> FALSE],
   [kind |-> "badjson", ok |-> TRUE, message |-> "", positions |-> <<>>,
    hasPositions |-> FALSE],
   [kind |-> "nullbody", ok |-> TRUE, message |-> "", positions |-> <<>>,
    hasPositions |-> FALSE],
   [kind |-> "json", ok |-> TRUE, message |-> "", positions |-> <<>>,
    hasPositions |-> FALSE]}
  \cup {[kind |-> "json", ok |-> FALSE, message |-> m, positions |-> <<>>,
         hasPositions |-> FALSE] : m \in ServerMessages}
  \cup {[kind |-> "json", ok |-> TRUE, message |-> "", positions |-> l,
         hasPositions |-> TRUE] : l \in PositionLists}

\* No response: the filler of outcome when no fetch has settled.
NoResponse ==
  [kind |-> "none", ok |-> FALSE, message |-> "", positions |-> <<>>,
   hasPositions |-> FALSE]

\* x || y on strings: the empty string is falsy
OrElse(x, y) == IF x = "" THEN y ELSE x

\* The message of the error thrown inside the try block of lines 80-91 for
\* a response, "" when nothing is thrown.
Thrown(resp) ==
  CASE resp.kind = "reject"   -> NetworkRequestFailed
    [] resp.kind = "badjson"  -> JsonParseError
    [] resp.kind = "nullbody" -> IF resp.ok THEN NullBodyError ELSE FailedToLoad
    [] resp.kind = "json"     ->
         IF ~resp.ok THEN OrElse(resp.message, FailedToLoad) ELSE ""

\* mutant: the response is appended to the list
NextPositions_Append(old, resp) ==
  old \o (IF resp.hasPositions THEN resp.positions ELSE <<>>)

\* line 91: json.positions || []
NextPositions(old, resp) ==
  IF resp.hasPositions THEN resp.positions ELSE <<>>

\* line 258: the list is rendered
ListRendered(ld, err) == ~ld /\ err = NoError

\* line 246: the error text and the Retry button are rendered
RetryRendered(ld, err) == err # NoError /\ ~ld

\* Rendering the screen throws: the totals throw (line 118) or a rendered
\* row throws (lines 272-283).
RenderRaises(pos, mode, ld, err, exp) ==
  \/ ~IsList(pos)
  \/ /\ ListRendered(ld, err)
     /\ \E i \in 1..Len(pos) :
          PositionRowItem(pos[i], exp = pos[i].symbol, mode).raises

\* the value useMemo returned to the last render (line 112)
totals == memo.value

\* lines 191-238: the summary card on screen, if any
summary ==
  IF SummaryRendered(loading, error) /\ ~crashed
    THEN <<SummaryCard(totals, pnlMode)>>
    ELSE <<>>

\* The rows on screen, in list order.
rows ==
  IF ListRendered(loading, error) /\ ~crashed
    THEN [i \in 1..Len(positions) |->
            PositionRowItem(positions[i], expandedSymbol = positions[i].symbol,
                            pnlMode)]
    ELSE <<>>

Init ==
  /\ positions = <<>>
  /\ loading = TRUE
  /\ refreshing = FALSE
  /\ error = NoError
  /\ expandedSymbol = NoSymbol
  /\ pnlMode = "NET"
  /\ authToken \in {NoToken, Token}
  /\ requests = {}
  /\ effectPending = TRUE
  /\ crashed = FALSE
  /\ shownLatest = TRUE
  /\ memo = [positions |-> <<>>, pnlMode |-> "NET",
             value |-> Totals(<<>>, "NET")]
  /\ outcome = [how |-> "pending", resp |-> NoResponse]

(***************************************************************************)
(* loadPositions (portfolio.tsx:68-98)                                     *)
(***************************************************************************)
\* lines 69-73: the synchronous part, up to the first await
LoadPositions(silent) ==
  /\ loading' = IF silent THEN loading ELSE TRUE
  /\ error' = NoError
  /\ requests' = {[r EXCEPT !.latest = FALSE] : r \in requests}
                   \cup {[silent |-> silent, pc |-> "getItem", latest |-> TRUE]}
  /\ outcome' = [how |-> "pending", resp |-> NoResponse]

\* lines 100-102
UseEffect ==
  /\ active = "portfolio"
  /\ ~crashed
  /\ effectPending
  /\ effectPending' = FALSE
  /\ LoadPositions(FALSE)
  /\ crashed' = RenderRaises(positions, pnlMode, loading', error', expandedSymbol)
  /\ memo' = UseMemo(memo, positions, pnlMode)
  /\ UNCHANGED <<positions, refreshing, expandedSymbol, pnlMode, authToken,
                 shownLatest>>
  /\ UNCHANGED appVars

\* lines 249-252: the Retry button, rendered when error && !loading
Retry ==
  /\ active = "portfolio"
  /\ ~crashed
  /\ RetryRendered(loading, error)
  /\ LoadPositions(FALSE)
  /\ crashed' = RenderRaises(positions, pnlMode, loading', error', expandedSymbol)
  /\ memo' = UseMemo(memo, positions, pnlMode)
  /\ UNCHANGED <<positions, refreshing, expandedSymbol, pnlMode, authToken,
                 effectPending, shownLatest>>
  /\ UNCHANGED appVars

\* mutant: the refreshing prop is not passed to the list
CanPull_WhileRefreshing == ListRendered(loading, error)

\* The list can be pulled: it is rendered (line 258) and its refresh control
\* is not showing a refresh (refreshing prop, line 262).
CanPull == ListRendered(loading, error) /\ ~refreshing

\* lines 104-107
handleRefresh ==
  /\ active = "portfolio"
  /\ ~crashed
  /\ CanPull
  /\ refreshing' = TRUE
  /\ LoadPositions(TRUE)
  /\ crashed' = RenderRaises(positions, pnlMode, loading', error', expandedSymbol)
  /\ memo' = UseMemo(memo, positions, pnlMode)
  /\ UNCHANGED <<positions, expandedSymbol, pnlMode, authToken, effectPending,
                 shownLatest>>
  /\ UNCHANGED appVars

\* mutant: a missing credential yields the empty list
GetItemResolved_EmptiesList(r) ==
  /\ active = "portfolio"
  /\ ~crashed
  /\ r \in requests
  /\ r.pc = "getItem"
  /\ IF authToken = NoToken
       THEN /\ error' = NotAuthenticated
            /\ loading' = FALSE
            /\ refreshing' = FALSE
            /\ requests' = requests \ {r}
            /\ shownLatest' = r.latest
            /\ outcome' = [how |-> "credential", resp |-> NoResponse]
            /\ positions' = <<>>
       ELSE /\ requests' = (requests \ {r}) \cup {[r EXCEPT !.pc = "fetch"]}
            /\ UNCHANGED <<error, loading, refreshing, shownLatest, outcome,
                           positions>>
  /\ crashed' = RenderRaises(positions', pnlMode, loading', error', expandedSymbol)
  /\ memo' = UseMemo(memo, positions', pnlMode)
  /\ UNCHANGED <<expandedSymbol, pnlMode, authToken, effectPending>>
  /\ UNCHANGED appVars

\* lines 73-78 and 94-97: AsyncStorage.getItem resolves
GetItemResolved(r) ==
  /\ active = "portfolio"
  /\ ~crashed
  /\ r \in requests
  /\ r.pc = "getItem"
  /\ IF authToken = NoToken
       THEN /\ error' = NotAuthenticated
            /\ loading' = FALSE
            /\ refreshing' = FALSE
            /\ requests' = requests \ {r}
            /\ shownLatest' = r.latest
            /\ outcome' = [how |-> "credential", resp |-> NoResponse]
       ELSE /\ requests' = (requests \ {r}) \cup {[r EXCEPT !.pc = "fetch"]}
            /\ UNCHANGED <<error, loading, refreshing, shownLatest, outcome>>
  /\ crashed' = RenderRaises(positions, pnlMode, loading', error', expandedSymbol)
  /\ memo' = UseMemo(memo, positions, pnlMode)
  /\ UNCHANGED <<positions, expandedSymbol, pnlMode, authToken, effectPending>>
  /\ UNCHANGED appVars

\* mutant: the flags are cleared after setPositions, not in a finally block
FetchSettled_NoFinally(r, resp) ==
  /\ active = "portfolio"
  /\ ~crashed
  /\ r \in requests
  /\ r.pc = "fetch"
  /\ IF Thrown(resp) = ""
       THEN /\ positions' = NextPositions(positions, resp)
            /\ error' = error
            /\ loading' = FALSE
            /\ refreshing' = FALSE
       ELSE /\ error' = OrElse(Thrown(resp), SomethingWentWrong)
            /\ positions' = positions
            /\ UNCHANGED <<loading, refreshing>>
  /\ requests' = requests \ {r}
  /\ shownLatest' = r.latest
  /\ outcome' = [how |-> "settled", resp |-> resp]
  /\ crashed' = RenderRaises(positions', pnlMode, loading', error', expandedSymbol)
  /\ memo' = UseMemo(memo, positions', pnlMode)
  /\ UNCHANGED <<expandedSymbol, pnlMode, authToken, effectPending>>
  /\ UNCHANGED appVars

\* lines 80-97: the fetch settles, the body is parsed, the state is set
FetchSettled(r, resp) ==
  /\ active = "portfolio"
  /\ ~crashed
  /\ r \in requests
  /\ r.pc = "fetch"
  /\ IF Thrown(resp) = ""
       THEN /\ positions' = NextPositions(positions, resp)
            /\ error' = error
       ELSE /\ error' = OrElse(Thrown(resp), SomethingWentWrong)
            /\ positions' = positions
  /\ loading' = FALSE
  /\ refreshing' = FALSE
  /\ requests' = requests \ {r}
  /\ shownLatest' = r.latest
  /\ outcome' = [how |-> "settled", resp |-> resp]
  /\ crashed' = RenderRaises(positions', pnlMode, loading', error', expandedSymbol)
  /\ memo' = UseMemo(memo, positions', pnlMode)
  /\ UNCHANGED <<expandedSymbol, pnlMode, authToken, effectPending>>
  /\ UNCHANGED appVars

(***************************************************************************)
(* The other handlers of the screen                                        *)
(***************************************************************************)
\* mutant: switching the mode drops the list
setPnlMode_DropsList(mode) ==
  /\ active = "portfolio"
  /\ ~crashed
  /\ pnlMode' = mode
  /\ positions' = <<>>
  /\ crashed' = FALSE
  /\ memo' = UseMemo(memo, positions', pnlMode')
  /\ UNCHANGED <<loading, refreshing, error, expandedSymbol,
                 authToken, requests, effectPending, shownLatest, outcome>>
  /\ UNCHANGED appVars

\* mutant: the mode buttons are disabled while loading
setPnlMode_DisabledWhileLoading(mode) ==
  /\ active = "portfolio"
  /\ ~crashed
  /\ ~loading
  /\ pnlMode' = mode
  /\ crashed' = RenderRaises(positions, pnlMode', loading, error, expandedSymbol)
  /\ memo' = UseMemo(memo, positions, pnlMode')
  /\ UNCHANGED <<positions, loading, refreshing, error, expandedSymbol,
                 authToken, requests, effectPending, shownLatest, outcome>>
  /\ UNCHANGED appVars

\* lines 161 and 177
setPnlMode(mode) ==
  /\ active = "portfolio"
  /\ ~crashed
  /\ pnlMode' = mode
  /\ crashed' = RenderRaises(positions, pnlMode', loading, error, expandedSymbol)
  /\ memo' = UseMemo(memo, positions, pnlMode')
  /\ UNCHANGED <<positions, loading, refreshing, error, expandedSymbol,
                 authToken, requests, effectPending, shownLatest, outcome>>
  /\ UNCHANGED appVars

\* mutant: a tap always expands the row
onToggle_NoCollapse(symbol) ==
  /\ active = "portfolio"
  /\ ~crashed
  /\ ListRendered(loading, error)
  /\ symbol \in SymbolsOf(positions)
  /\ expandedSymbol' = symbol
  /\ crashed' = RenderRaises(positions, pnlMode, loading, error, expandedSymbol')
  /\ memo' = UseMemo(memo, positions, pnlMode)
  /\ UNCHANGED <<positions, loading, refreshing, error, pnlMode, authToken,
                 requests, effectPending, shownLatest, outcome>>
  /\ UNCHANGED appVars

\* lines 276-280: a rendered row is tapped
onToggle(symbol) ==
  /\ active = "portfolio"
  /\ ~crashed
  /\ ListRendered(loading, error)
  /\ symbol \in SymbolsOf(positions)
  /\ expandedSymbol' = IF expandedSymbol = symbol THEN NoSymbol ELSE symbol
  /\ crashed' = RenderRaises(positions, pnlMode, loading, error, expandedSymbol')
  /\ memo' = UseMemo(memo, positions, pnlMode)
  /\ UNCHANGED <<positions, loading, refreshing, error, pnlMode, authToken,
                 requests, effectPending, shownLatest, outcome>>
  /\ UNCHANGED appVars

(***************************************************************************)
(* The stored credential, written by other screens                         *)
(***************************************************************************)
\* index.tsx: AsyncStorage.setItem('authToken', data.token)
StoreToken ==
  /\ ~crashed
  /\ authToken = NoToken
  /\ authToken' = Token
  /\ UNCHANGED <<positions, loading, refreshing, error, expandedSymbol,
                 pnlMode, requests, effectPending, crashed, shownLatest,
                 memo, outcome>>
  /\ UNCHANGED appVars

\* profile.tsx handleLogout: AsyncStorage.removeItem('authToken')
RemoveToken ==
  /\ ~crashed
  /\ authToken = Token
  /\ authToken' = NoToken
  /\ UNCHANGED <<positions, loading, refreshing, error, expandedSymbol,
                 pnlMode, requests, effectPending, crashed, shownLatest,
                 memo, outcome>>
  /\ UNCHANGED appVars

(***************************************************************************)
(* BalanceScreen (balance.tsx:67-420)                                      *)
(***************************************************************************)
\* A text is the sequence of its characters.
DigitChars == <<"0", "1", "2", "3", "4", "5", "6", "7", "8", "9">>

IsDigit(c) == \E d \in 1..10 : DigitChars[d] = c

DigitValue(c) == (CHOOSE d \in 1..10 : DigitChars[d] = c) - 1

\* text.replace(/[^\d]/g, '')  (lines 60, 160, 209)
StripNonDigits(text) == SelectSeq(text, IsDigit)

RECURSIVE DigitsToNumber(_)
\* Number(cleaned) on a string of digits; Number('') is 0
DigitsToNumber(cleaned) ==
  IF cleaned = <<>> THEN 0
  ELSE 10 * DigitsToNumber(SubSeq(cleaned, 1, Len(cleaned) - 1))
         + DigitValue(cleaned[Len(cleaned)])

RECURSIVE Decimal(_)
\* the decimal digits of a non-negative integer
Decimal(num) ==
  IF num < 10 THEN <<DigitChars[num + 1]>>
  ELSE Decimal(num \div 10) \o <<DigitChars[(num % 10) + 1]>>

RECURSIVE ToLocaleString(_)
\* num.toLocaleString('id-ID') of a non-negative integer: the decimal
\* digits with a "." between groups of three (line 64)
ToLocaleString(num) ==
  IF num < 1000 THEN Decimal(num)
  ELSE ToLocaleString(num \div 1000) \o <<".">>
         \o SubSeq(Decimal(1000 + (num % 1000)), 2, 4)

\* lines 59-65
formatIdrInput(text) ==
  LET cleaned == StripNonDigits(text)
  IN IF cleaned = <<>> THEN <<>>
     ELSE ToLocaleString(DigitsToNumber(cleaned))

BalanceModes == {"DEPOSIT", "WITHDRAW"}

\* lines 79-82: the dialog state before the first showDialog
NoDialog == [visible |-> FALSE, title |-> "", variant |-> "info"]

\* lines 84-93
showDialog(title, variant) ==
  [visible |-> TRUE, title |-> title, variant |-> variant]

\* lines 68-82, and the calls of the screen's async functions that have not
\* returned: loaders (loadBalances, loadTransactions) and submits
\* (handleDeposit, handleWithdraw)
BalanceInit ==
  [idrBalance |-> 0, loading |-> TRUE, submitting |-> FALSE,
   mode |-> "DEPOSIT", depositAmount |-> <<>>, withdrawAmount |-> <<>>,
   transactions |-> <<>>, error |-> NoError, refreshing |-> FALSE,
   dialog |-> NoDialog, effectPending |-> TRUE, loaders |-> {},
   submits |-> <<>>]

FailedToLoadBalance == "Failed to load balance."

\* What GET /balance and GET /balance/transactions can answer: a failure,
\* or a balance and a list of transactions.
BalanceLoadResponses ==
  {[ok |-> FALSE, balance |-> 0, transactions |-> <<>>],
   [ok |-> TRUE, balance |-> 0, transactions |-> <<>>],
   [ok |-> TRUE, balance |-> 50, transactions |-> <<"tx">>]}

\* Most calls of loadAll in flight at once that are followed.
MaxLoadAll == 1

\* One more loadAll can be followed.
CanLoadAll(b) == Cardinality({l.owner : l \in b.loaders}) < MaxLoadAll

\* What POST /balance/deposit and /withdraw can answer: a rejected fetch, a
\* non-OK status, an OK status with a JSON object or with the body null.
SubmitResponses == {"reject", "notok", "ok", "oknull"}

\* The title of the success dialog (lines 197 and 246).
SuccessTitle(kind) ==
  IF kind = "DEPOSIT" THEN "Deposit successful" ELSE "Withdrawal successful"

\* lines 195-204 and 244-253: handleDeposit or handleWithdraw after its
\* await loadAll(): reading json.new_balance_idr throws when the body was
\* null; the finally block clears submitting.
AfterReload(b) ==
  LET done == SelectSeq(b.submits, LAMBDA sub : sub.pc = "reload")
  IN IF done = <<>> THEN b
     ELSE [b EXCEPT
             !.dialog = IF done[1].bodyNull
                          THEN showDialog("Error", "error")
                          ELSE showDialog(SuccessTitle(done[1].kind),
                                          "success"),
             !.submitting = FALSE,
             !.submits = SelectSeq(b.submits, LAMBDA sub : sub.pc # "reload")]

\* lines 148-153 and 269-273: what runs once Promise.all has resolved
AfterLoadAll(b, owner) ==
  LET b1 == [b EXCEPT !.loading = FALSE]
  IN CASE owner = "useEffect" -> b1
       [] owner = "onRefresh" -> [b1 EXCEPT !.refreshing = FALSE]
       [] owner = "submit"    -> AfterReload(b1)

\* lines 148-151: loadAll up to its await
loadAll(b, owner) ==
  [b EXCEPT !.loading = TRUE,
            !.error = NoError,
            !.loaders = @ \cup
              {[owner |-> owner, fn |-> fn, pc |-> "getItem",
                token |-> NoToken] :
                 fn \in {"loadBalances", "loadTransactions"}}]

\* loader l returns; the loadAll that called it resolves with its last loader
LoaderReturns(b, l) ==
  LET b1 == [b EXCEPT !.loaders = @ \ {l}]
  IN IF \E o \in b1.loaders : o.owner = l.owner THEN b1
     ELSE AfterLoadAll(b1, l.owner)

\* the other screens stay as they are
BalanceFrame == UNCHANGED <<portfolioVars, active, trade, home, avatar, auth,
                            password>>

\* lines 155-157
BalanceUseEffect ==
  /\ active = "balance"
  /\ balance.effectPending
  /\ CanLoadAll(balance)
  /\ balance' = loadAll([balance EXCEPT !.effectPending = FALSE], "useEffect")
  /\ BalanceFrame

\* lines 97-102 and 126-129: AsyncStorage.getItem resolves in a loader
BalanceLoaderGetItem(l) ==
  /\ active = "balance"
  /\ l \in balance.loaders
  /\ l.pc = "getItem"
  /\ balance' =
       IF authToken = NoToken
         THEN LoaderReturns(
                IF l.fn = "loadBalances"
                  THEN [balance EXCEPT !.error = NotAuthenticated,
                                       !.idrBalance = 0]
                  ELSE balance, l)
         ELSE [balance EXCEPT !.loaders = (@ \ {l}) \cup
                 {[l EXCEPT !.pc = "fetch", !.token = authToken]}]
  /\ BalanceFrame

\* lines 104-121 and 130-145: the fetch of a loader settles
BalanceLoaderFetch(l, resp) ==
  /\ active = "balance"
  /\ l \in balance.loaders
  /\ l.pc = "fetch"
  /\ balance' =
       LoaderReturns(
         IF l.fn = "loadBalances"
           THEN IF resp.ok
                  THEN [balance EXCEPT !.idrBalance = resp.balance]
                  ELSE [balance EXCEPT !.error = FailedToLoadBalance,
                                       !.idrBalance = 0]
           ELSE IF resp.ok
                  THEN [balance EXCEPT !.transactions = resp.transactions]
                  ELSE balance, l)
  /\ BalanceFrame


\* The controls that can be pressed: the modal dialog, while visible,
\* covers the screen (lines 409-431).
BalanceTouchable == active = "balance" /\ ~balance.dialog.visible

\* lines 269-273; the refresh control is not pulled while it shows a
\* refresh (line 288)
onRefresh ==
  /\ BalanceTouchable
  /\ ~balance.refreshing
  /\ CanLoadAll(balance)
  /\ balance' = loadAll([balance EXCEPT !.refreshing = TRUE], "onRefresh")
  /\ BalanceFrame

\* lines 316-317 and 333-334
setMode(mode) ==
  /\ BalanceTouchable
  /\ ~balance.submitting
  /\ balance' = [balance EXCEPT !.mode = mode]
  /\ BalanceFrame

\* the amount field of a mode (lines 265-267)
AmountField(mode) ==
  IF mode = "DEPOSIT" THEN "depositAmount" ELSE "withdrawAmount"

\* line 367: the text of the field shown is edited to text
onChangeText(text) ==
  /\ BalanceTouchable
  /\ balance' = [balance EXCEPT ![AmountField(balance.mode)] =
                                   formatIdrInput(text)]
  /\ BalanceFrame

\* Longest sequence of submissions in flight that is followed.
MaxSubmits == 2

\* mutant: any amount is sent
AmountInvalid_Never(amount) == FALSE

\* lines 163 and 212: !amount || amount <= 0
AmountInvalid(amount) == amount = 0 \/ amount <= 0

\* lines 159-174 and 208-223: handleDeposit or handleWithdraw up to its
\* first await
handleSubmit(b, kind) ==
  LET cleaned == StripNonDigits(b[AmountField(kind)])
      amount  == DigitsToNumber(cleaned)
  IN IF AmountInvalid(amount)
       THEN [b EXCEPT !.dialog = showDialog("Invalid input", "error")]
       ELSE [b EXCEPT !.submitting = TRUE,
                      !.submits = Append(@, [kind |-> kind, pc |-> "getItem",
                                             amount |-> amount,
                                             token |-> NoToken,
                                             bodyNull |-> FALSE])]

handleDeposit(b) == handleSubmit(b, "DEPOSIT")

handleWithdraw(b) == handleSubmit(b, "WITHDRAW")

\* mutant: the primary button carries no disabled prop
onPrimaryPress_NeverDisabled ==
  /\ BalanceTouchable
  /\ Len(balance.submits) < MaxSubmits
  /\ balance' = IF balance.mode = "DEPOSIT" THEN handleDeposit(balance)
                                            ELSE handleWithdraw(balance)
  /\ BalanceFrame

\* lines 257-263 and 371-372
onPrimaryPress ==
  /\ BalanceTouchable
  /\ ~balance.submitting
  /\ Len(balance.submits) < MaxSubmits
  /\ balance' = IF balance.mode = "DEPOSIT" THEN handleDeposit(balance)
                                            ELSE handleWithdraw(balance)
  /\ BalanceFrame

\* the submissions without the i-th
WithoutSubmit(submits, i) ==
  SubSeq(submits, 1, i - 1) \o SubSeq(submits, i + 1, Len(submits))

\* mutant: the request is sent with whatever getItem returned
SubmitGetItem_Unchecked(i) ==
  /\ active = "balance"
  /\ i \in 1..Len(balance.submits)
  /\ balance.submits[i].pc = "getItem"
  /\ balance' = [balance EXCEPT !.submits[i].pc = "fetch",
                                !.submits[i].token = authToken]
  /\ BalanceFrame

\* lines 174-179 and 223-228: AsyncStorage.getItem resolves in a submission
SubmitGetItem(i) ==
  /\ active = "balance"
  /\ i \in 1..Len(balance.submits)
  /\ balance.submits[i].pc = "getItem"
  /\ balance' =
       IF authToken = NoToken
         THEN [balance EXCEPT
                 !.dialog = showDialog("Not authenticated", "error"),
                 !.submitting = FALSE,
                 !.submits = WithoutSubmit(@, i)]
         ELSE [balance EXCEPT !.submits[i].pc = "fetch",
                              !.submits[i].token = authToken]
  /\ BalanceFrame

\* lines 181-194 and 230-243, with the catch and finally of a failure: the
\* fetch of a submission settles
SubmitFetch(i, resp) ==
  /\ active = "balance"
  /\ i \in 1..Len(balance.submits)
  /\ balance.submits[i].pc = "fetch"
  /\ resp \in {"ok", "oknull"} => CanLoadAll(balance)
  /\ balance' =
       IF resp \in {"reject", "notok"}
         THEN [balance EXCEPT !.dialog = showDialog("Error", "error"),
                              !.submitting = FALSE,
                              !.submits = WithoutSubmit(@, i)]
         ELSE loadAll([balance EXCEPT
                         ![AmountField(balance.submits[i].kind)] = <<>>,
                         !.submits[i].pc = "reload",
                         !.submits[i].bodyNull = (resp = "oknull")],
                      "submit")
  /\ BalanceFrame

\* lines 413 and 426: the dialog is closed
closeDialog ==
  /\ active = "balance"
  /\ balance.dialog.visible
  /\ balance' = [balance EXCEPT !.dialog.visible = FALSE]
  /\ BalanceFrame

\* The texts entered into an amount field: nothing, a zero, letters only,
\* a thousand with a letter in it.
TypedTexts ==
  {<<>>, <<"0">>, <<"a", "b">>, <<"1", "0", "x", "0", "0">>}

NextBalance ==
  \/ BalanceUseEffect
  \/ \E l \in balance.loaders : BalanceLoaderGetItem(l)
  \/ \E l \in balance.loaders, resp \in BalanceLoadResponses :
       BalanceLoaderFetch(l, resp)
  \/ onRefresh
  \/ \E mode \in BalanceModes : setMode(mode)
  \/ \E text \in TypedTexts : onChangeText(text)
  \/ onPrimaryPress
  \/ \E i \in 1..Len(balance.submits) : SubmitGetItem(i)
  \/ \E i \in 1..Len(balance.submits), resp \in SubmitResponses :
       SubmitFetch(i, resp)
  \/ closeDialog
  \/ StoreToken
  \/ RemoveToken

(***************************************************************************)
(* The trade screen (src/unnamed/part_002).  trade holds the state hooks   *)
(* of lines 96-120 that the handlers read, and the calls of its async      *)
(* functions that have not returned: loaders (loadPortfolio, loadTrades,   *)
(* loadSymbols) and orders (handleBuy, handleSell).  The rows of balances, *)
(* holdings and trades are written by the loaders and read by the render   *)
(* only; they are not followed.  accepted records whether the response of  *)
(* the last settled order carried an OK status.                            *)
(***************************************************************************)
IsDecimalChar(c) == IsDigit(c) \/ c = "."

\* replace(/[^0-9.]/g, '')
StripNonDecimal(text) == SelectSeq(text, IsDecimalChar)

\* index of the first '.', or one past the end
FirstDot(text) ==
  IF \E i \in 1..Len(text) : text[i] = "."
    THEN CHOOSE i \in 1..Len(text) :
           text[i] = "." /\ \A j \in 1..(i - 1) : text[j] # "."
    ELSE Len(text) + 1

\* cleaned.split('.')[0]
IntPart(cleaned) == SubSeq(cleaned, 1, FirstDot(cleaned) - 1)

\* cleaned.split('.')[1] where it is defined
FracPart(cleaned) ==
  LET rest == SubSeq(cleaned, FirstDot(cleaned) + 1, Len(cleaned))
  IN SubSeq(rest, 1, FirstDot(rest) - 1)

\* toLocaleString('en-US') of a natural number: ',' between groups of three
ToLocaleStringEnUS(num) ==
  [i \in 1..Len(ToLocaleString(num)) |->
     IF ToLocaleString(num)[i] = "." THEN "," ELSE ToLocaleString(num)[i]]

\* lines 76-92
formatDecimalInput(text) ==
  LET cleaned == StripNonDecimal(text)
      intPart == IntPart(cleaned)
      formattedInt == IF intPart # <<>>
                        THEN ToLocaleStringEnUS(DigitsToNumber(intPart))
                        ELSE <<>>
  IN IF cleaned = <<>> THEN <<>>
     ELSE IF FirstDot(cleaned) <= Len(cleaned)
            THEN formattedInt \o <<".">> \o FracPart(cleaned)
            ELSE formattedInt

\* Number(cleaned) of a text of digits and dots: NaN, or the integer part
\* and the fraction digits of the number
NumberOfDecimal(cleaned) ==
  IF cleaned = <<>> THEN [nan |-> FALSE, int |-> 0, frac |-> <<>>]
  ELSE IF \/ StripNonDigits(cleaned) = <<>>
          \/ Len(SelectSeq(cleaned, LAMBDA c : c = ".")) > 1
         THEN [nan |-> TRUE, int |-> 0, frac |-> <<>>]
         ELSE [nan |-> FALSE,
               int |-> DigitsToNumber(IntPart(cleaned)),
               frac |-> FracPart(cleaned)]

\* lines 262 and 338: !amount || amount <= 0 of a number made of a
\* non-negative integer part and fraction digits
DecimalInvalid(amount) ==
  \/ amount.nan
  \/ amount.int = 0 /\ \A i \in 1..Len(amount.frac) : amount.frac[i] = "0"

\* The symbols a coin of GET /crypto/top can carry.
CoinSymbols == {"btc", "BTC"}

\* toUpperCase on the symbols followed
ToUpperCase(sym) == IF sym = "btc" THEN "BTC" ELSE sym

BuyModes == {"IDR", "COIN"}

\* lines 96-120
TradeInit ==
  [loading |-> TRUE, portfolioError |-> NoError,
   availableCoins |-> <<>>, symbol |-> "",
   spendIdr |-> <<>>, buyAmountCoin |-> <<>>, sellAmount |-> <<>>,
   tradeLoading |-> FALSE, buyMode |-> "IDR", refreshing |-> FALSE,
   dialog |-> NoDialog, effectPending |-> TRUE, loaders |-> {},
   orders |-> <<>>, accepted |-> FALSE]

FailedToLoadPortfolio == "Failed to load portfolio."

\* What GET /portfolio, /trades and /crypto/top can answer: a failure, or
\* the rows asked for.
TradeLoadResponses ==
  {[ok |-> FALSE, rows |-> <<>>], [ok |-> TRUE, rows |-> <<"btc">>]}

\* What POST /trade/buy and /trade/sell can answer: a rejected fetch, or a
\* status and a JSON object whose amount_coin is a number, a numeric
\* string or absent.
TradeResponses ==
  {[kind |-> "reject", ok |-> FALSE, amount_coin |-> Undefined]} \cup
  {[kind |-> "json", ok |-> ok, amount_coin |-> v] :
     ok \in BOOLEAN, v \in {Num(1), NumStr(1), Undefined}}

\* lines 136-138 and 225-227: loadAll up to its await
TradeLoadAll(b, owner) ==
  [b EXCEPT !.loading = TRUE,
            !.portfolioError = NoError,
            !.loaders = @ \cup
              {[owner |-> owner, fn |-> "loadPortfolio", pc |-> "getItem"],
               [owner |-> owner, fn |-> "loadTrades", pc |-> "getItem"],
               [owner |-> owner, fn |-> "loadSymbols", pc |-> "fetch"]}]

\* lines 232-236, 310-312 and 365-367: what runs once Promise.all has
\* resolved
TradeAfterLoadAll(b, owner) ==
  CASE owner = "useEffect" -> b
    [] owner = "onRefresh" -> [b EXCEPT !.refreshing = FALSE]
    [] owner = "order" ->
         [b EXCEPT !.tradeLoading = FALSE,
                   !.orders = SelectSeq(@, LAMBDA o : o.pc # "reload")]

\* loader l returns; the loadAll that called it resolves with its last loader
TradeLoaderReturns(b, l) ==
  LET b1 == [b EXCEPT !.loaders = @ \ {l}]
  IN IF \E o \in b1.loaders : o.owner = l.owner THEN b1
     ELSE TradeAfterLoadAll(b1, l.owner)

\* the other screens stay as they are
TradeFrame == UNCHANGED <<portfolioVars, active, balance, home, avatar, auth,
                          password>>

\* lines 229-231
TradeUseEffect ==
  /\ active = "trade"
  /\ trade.effectPending
  /\ CanLoadAll(trade)
  /\ trade' = TradeLoadAll([trade EXCEPT !.effectPending = FALSE],
                           "useEffect")
  /\ TradeFrame

\* lines 139-145 and 166-171: AsyncStorage.getItem resolves in loadPortfolio
\* or loadTrades
TradeLoaderGetItem(l) ==
  /\ active = "trade"
  /\ l \in trade.loaders
  /\ l.pc = "getItem"
  /\ trade' =
       IF authToken = NoToken
         THEN TradeLoaderReturns(
                IF l.fn = "loadPortfolio"
                  THEN [trade EXCEPT !.portfolioError = NotAuthenticated,
                                     !.loading = FALSE]
                  ELSE trade, l)
         ELSE [trade EXCEPT !.loaders = (@ \ {l}) \cup
                                          {[l EXCEPT !.pc = "fetch"]}]
  /\ TradeFrame

\* lines 147-163, 173-185 and 190-206: the fetch of a loader settles
TradeLoaderFetch(l, resp) ==
  /\ active = "trade"
  /\ l \in trade.loaders
  /\ l.pc = "fetch"
  /\ trade' =
       TradeLoaderReturns(
         CASE l.fn = "loadPortfolio" ->
                IF resp.ok
                  THEN [trade EXCEPT !.loading = FALSE]
                  ELSE [trade EXCEPT !.portfolioError = FailedToLoadPortfolio,
                                     !.loading = FALSE]
           [] l.fn = "loadTrades" -> trade
           [] l.fn = "loadSymbols" ->
                IF resp.ok THEN [trade EXCEPT !.availableCoins = resp.rows]
                           ELSE trade, l)
  /\ TradeFrame

\* The controls that can be pressed: the modal dialog, while visible,
\* covers the screen (lines 614-636).
TradeTouchable == active = "trade" /\ ~trade.dialog.visible

\* lines 232-236
TradeOnRefresh ==
  /\ TradeTouchable
  /\ ~trade.refreshing
  /\ CanLoadAll(trade)
  /\ trade' = TradeLoadAll([trade EXCEPT !.refreshing = TRUE], "onRefresh")
  /\ TradeFrame

\* lines 480-481 and 497-498
setBuyMode(mode) ==
  /\ TradeTouchable
  /\ ~trade.tradeLoading
  /\ trade' = [trade EXCEPT !.buyMode = mode]
  /\ TradeFrame

\* lines 370-373 and 460-463: a coin of the dropdown is pressed
handleSelectSymbol(i) ==
  /\ TradeTouchable
  /\ i \in 1..Len(trade.availableCoins)
  /\ trade' = [trade EXCEPT !.symbol = ToUpperCase(trade.availableCoins[i])]
  /\ TradeFrame

\* lines 521 and 535-537: the amount field shown in the buy form is edited
setBuyAmount(text) ==
  /\ TradeTouchable
  /\ trade' = IF trade.buyMode = "IDR"
                THEN [trade EXCEPT !.spendIdr = formatIdrInput(text)]
                ELSE [trade EXCEPT !.buyAmountCoin = formatDecimalInput(text)]
  /\ TradeFrame

\* lines 560-562
setSellAmount(text) ==
  /\ TradeTouchable
  /\ trade' = [trade EXCEPT !.sellAmount = formatDecimalInput(text)]
  /\ TradeFrame

\* an order starts: setTradeLoading(true) and the call of getItem
StartOrder(b, kind) ==
  [b EXCEPT !.tradeLoading = TRUE,
            !.orders = Append(@, [kind |-> kind, pc |-> "getItem"])]

\* lines 238-273: handleBuy up to its first await (the symbols followed
\* carry no white space, trim leaves them as they are)
handleBuy(b) ==
  LET s == ToUpperCase(b.symbol)
      invalid ==
        IF b.buyMode = "IDR"
          THEN s = "" \/ AmountInvalid(DigitsToNumber(StripNonDigits(b.spendIdr)))
          ELSE s = "" \/ DecimalInvalid(
                           NumberOfDecimal(StripNonDecimal(b.buyAmountCoin)))
  IN IF invalid THEN [b EXCEPT !.dialog = showDialog("Invalid input", "error")]
                ELSE StartOrder(b, "BUY")

\* lines 315-332: handleSell up to its first await
handleSell(b) ==
  LET s == ToUpperCase(b.symbol)
      cleaned == StripNonDecimal(SelectSeq(b.sellAmount, LAMBDA c : c # ","))
  IN IF s = "" \/ DecimalInvalid(NumberOfDecimal(cleaned))
       THEN [b EXCEPT !.dialog = showDialog("Invalid input", "error")]
       ELSE StartOrder(b, "SELL")

\* lines 545-546
onPressBuy ==
  /\ TradeTouchable
  /\ ~trade.tradeLoading
  /\ trade' = handleBuy(trade)
  /\ TradeFrame

\* lines 567-568
onPressSell ==
  /\ TradeTouchable
  /\ ~trade.tradeLoading
  /\ trade' = handleSell(trade)
  /\ TradeFrame

\* lines 274-279 and 333-338: AsyncStorage.getItem resolves in an order
OrderGetItem(i) ==
  /\ active = "trade"
  /\ i \in 1..Len(trade.orders)
  /\ trade.orders[i].pc = "getItem"
  /\ trade' =
       IF authToken = NoToken
         THEN [trade EXCEPT
                 !.dialog = showDialog("Not authenticated", "error"),
                 !.tradeLoading = FALSE,
                 !.orders = WithoutSubmit(@, i)]
         ELSE [trade EXCEPT !.orders[i].pc = "fetch"]
  /\ TradeFrame

\* lines 281-313 and 340-368: the fetch of an order settles.  A rejected
\* fetch, a non-OK status and a raising toFixed end in the catch block and
\* the finally block; otherwise the dialog is shown, the inputs are cleared
\* and loadAll is awaited.
OrderFetch(i, resp) ==
  /\ active = "trade"
  /\ i \in 1..Len(trade.orders)
  /\ trade.orders[i].pc = "fetch"
  /\ LET raised == \/ resp.kind = "reject"
                   \/ ~resp.ok
                   \/ ToFixedRaises(resp.amount_coin)   \* lines 295, 353
         t1 == [trade EXCEPT !.accepted = resp.ok]
     IN /\ ~raised => CanLoadAll(trade)
        /\ trade' =
             IF raised
               THEN [t1 EXCEPT !.dialog = showDialog("Error", "error"),
                               !.tradeLoading = FALSE,
                               !.orders = WithoutSubmit(@, i)]
               ELSE TradeLoadAll(
                      IF trade.orders[i].kind = "BUY"
                        THEN [t1 EXCEPT
                                !.dialog = showDialog("Trade executed",
                                                      "success"),
                                !.spendIdr = <<>>,
                                !.buyAmountCoin = <<>>,
                                !.orders[i].pc = "reload"]
                        ELSE [t1 EXCEPT
                                !.dialog = showDialog("Trade executed",
                                                      "success"),
                                !.sellAmount = <<>>,
                                !.orders[i].pc = "reload"],
                      "order")
  /\ TradeFrame

\* lines 618 and 632: the dialog is closed
TradeCloseDialog ==
  /\ active = "trade"
  /\ trade.dialog.visible
  /\ trade' = [trade EXCEPT !.dialog.visible = FALSE]
  /\ TradeFrame

\* The text entered into an amount field: one and a half.
TradeTexts == {<<"1", ".", "5">>}

NextTrade ==
  \/ TradeUseEffect
  \/ \E l \in trade.loaders : TradeLoaderGetItem(l)
  \/ \E l \in trade.loaders, resp \in TradeLoadResponses :
       TradeLoaderFetch(l, resp)
  \/ TradeOnRefresh
  \/ \E mode \in BuyModes : setBuyMode(mode)
  \/ \E i \in 1..Len(trade.availableCoins) : handleSelectSymbol(i)
  \/ \E text \in TradeTexts : setBuyAmount(text)
  \/ \E text \in TradeTexts : setSellAmount(text)
  \/ onPressBuy
  \/ onPressSell
  \/ \E i \in 1..Len(trade.orders) : OrderGetItem(i)
  \/ \E i \in 1..Len(trade.orders), resp \in TradeResponses :
       OrderFetch(i, resp)
  \/ TradeCloseDialog
  \/ StoreToken
  \/ RemoveToken

(***************************************************************************)
(* The change-password screen (src/app/password-change.tsx).  password     *)
(* holds the state hooks of lines 35-39, the title of the native alert on  *)
(* display ("" for none), whether the screen is still on the navigation    *)
(* stack, and the calls of handleSubmit that have not returned.            *)
(***************************************************************************)
RECURSIVE TrimStart(_)
TrimStart(text) ==
  IF text # <<>> /\ Head(text) = " " THEN TrimStart(Tail(text)) ELSE text

RECURSIVE TrimEnd(_)
TrimEnd(text) ==
  IF text # <<>> /\ text[Len(text)] = " "
    THEN TrimEnd(SubSeq(text, 1, Len(text) - 1))
    ELSE text

\* String.prototype.trim on texts whose only white space is the blank
Trim(text) == TrimEnd(TrimStart(text))

\* lines 35-39
PasswordInit ==
  [currentPassword |-> <<>>, newPassword |-> <<>>,
   confirmNewPassword |-> <<>>, submitting |-> FALSE, error |-> NoError,
   alert |-> "", mounted |-> TRUE, submits |-> <<>>]

FailedToChangePassword == "Failed to change password."

\* What POST /auth/change-password can answer: a rejected fetch, a non-OK
\* status, an OK status.
PasswordResponses == {"reject", "notok", "ok"}

\* The texts entered into a password field: a blank, three characters, six
\* characters.
PasswordTexts ==
  {<<" ">>, <<"a", "b", "c">>, <<"s", "e", "c", "r", "e", "t">>}

PasswordFields == {"currentPassword", "newPassword", "confirmNewPassword"}

\* the other screens stay as they are
PasswordFrame == UNCHANGED <<portfolioVars, active, balance, trade, home,
                             avatar, auth>>

\* The controls that can be pressed: a native alert, while on display,
\* covers the screen.
PasswordTouchable ==
  active = "password" /\ password.mounted /\ password.alert = ""

\* lines 132, 143 and 154
setPasswordField(field, text) ==
  /\ PasswordTouchable
  /\ password' = [password EXCEPT ![field] = text]
  /\ PasswordFrame

\* lines 41-65: handleSubmit up to its first await
PasswordHandleSubmit(b) ==
  IF \/ Trim(b.currentPassword) = <<>>
     \/ Trim(b.newPassword) = <<>>
     \/ Trim(b.confirmNewPassword) = <<>>
    THEN [b EXCEPT !.alert = "Invalid input"]
  ELSE IF b.newPassword # b.confirmNewPassword
    THEN [b EXCEPT !.alert = "Invalid input"]
  ELSE IF Len(b.newPassword) < 6
    THEN [b EXCEPT !.alert = "Weak password"]
  ELSE [b EXCEPT !.submitting = TRUE,
                 !.error = NoError,
                 !.submits = Append(@, [pc |-> "getItem"])]

\* lines 162-163
onPressSave ==
  /\ PasswordTouchable
  /\ ~password.submitting
  /\ password' = PasswordHandleSubmit(password)
  /\ PasswordFrame

\* lines 172-173: Cancel
onPressCancel ==
  /\ PasswordTouchable
  /\ ~password.submitting
  /\ password' = [password EXCEPT !.mounted = FALSE]
  /\ PasswordFrame

\* lines 65-70: AsyncStorage.getItem resolves in handleSubmit
PasswordGetItem(i) ==
  /\ active = "password"
  /\ i \in 1..Len(password.submits)
  /\ password.submits[i].pc = "getItem"
  /\ password' =
       IF authToken = NoToken
         THEN [password EXCEPT !.alert = "Not authenticated",
                               !.submitting = FALSE,
                               !.submits = WithoutSubmit(@, i)]
         ELSE [password EXCEPT !.submits[i].pc = "fetch"]
  /\ PasswordFrame

\* lines 72-99: the fetch of handleSubmit settles
PasswordFetch(i, resp) ==
  /\ active = "password"
  /\ i \in 1..Len(password.submits)
  /\ password.submits[i].pc = "fetch"
  /\ password' =
       IF resp = "ok"
         THEN [password EXCEPT !.alert = "Password updated",
                               !.submitting = FALSE,
                               !.submits = WithoutSubmit(@, i)]
         ELSE [password EXCEPT !.error = FailedToChangePassword,
                               !.alert = "Error",
                               !.submitting = FALSE,
                               !.submits = WithoutSubmit(@, i)]
  /\ PasswordFrame

\* the button of the alert is pressed; the OK of 'Password updated' calls
\* router.back() (lines 87-92)
DismissAlert ==
  /\ active = "password"
  /\ password.alert # ""
  /\ password' = [password EXCEPT
                    !.alert = "",
                    !.mounted = @ /\ password.alert # "Password updated"]
  /\ PasswordFrame

NextPassword ==
  \/ \E field \in PasswordFields, text \in PasswordTexts :
       setPasswordField(field, text)
  \/ onPressSave
  \/ onPressCancel
  \/ \E i \in 1..Len(password.submits) : PasswordGetItem(i)
  \/ \E i \in 1..Len(password.submits), resp \in PasswordResponses :
       PasswordFetch(i, resp)
  \/ DismissAlert
  \/ StoreToken
  \/ RemoveToken

(***************************************************************************)
(* The dashboard (src/app/(tabs)/home.tsx).  home holds the state hooks of *)
(* lines 78-85 that fetchCoins and handleManualRefresh write, whether the  *)
(* native alert is on display, and the calls in flight: fetches are the    *)
(* calls of fetchCoins, numbered in the order they started, and manual is   *)
(* the position of handleManualRefresh.  A list of coins is named by the   *)
(* number of the call it was returned to, 0 for the initial empty list.    *)
(* latestOk records that the call started last has delivered its list.     *)
(***************************************************************************)
\* lines 78-85
HomeInit ==
  [coins |-> 0, lastUpdated |-> 0, loading |-> TRUE, refreshing |-> FALSE,
   error |-> NoError, manualRefreshing |-> FALSE, alert |-> FALSE,
   effectPending |-> TRUE, started |-> 0, fetches |-> {},
   manual |-> "idle", latestOk |-> FALSE]

FailedToLoadCryptoData == "Failed to load crypto data."

\* What GET /crypto/top and POST /crypto/refresh can answer: a rejected
\* fetch, a non-OK status, an OK status.
HomeResponses == {"reject", "notok", "ok"}

\* Most calls of fetchCoins that are followed.
MaxFetches == 3

\* the other screens stay as they are
HomeFrame == UNCHANGED <<portfolioVars, active, balance, trade, avatar, auth,
                         password>>

\* lines 87-94: fetchCoins up to its await
fetchCoins(h, silent, owner) ==
  [h EXCEPT !.loading = IF silent THEN @ ELSE TRUE,
            !.error = NoError,
            !.started = @ + 1,
            !.latestOk = FALSE,
            !.fetches = @ \cup {[n |-> h.started + 1, silent |-> silent,
                                 owner |-> owner]}]

\* lines 141-144: handleManualRefresh after its await fetchCoins
AfterFetchCoins(h, f) ==
  IF f.owner = "manual"
    THEN [h EXCEPT !.manualRefreshing = FALSE, !.manual = "idle"]
    ELSE h

\* lines 95-113: the fetch of a call of fetchCoins settles
FetchCoinsSettled(f, resp) ==
  /\ active = "home"
  /\ f \in home.fetches
  /\ home' =
       AfterFetchCoins(
         [(IF resp = "ok"
             THEN [home EXCEPT !.coins = f.n,
                               !.lastUpdated = f.n,
                               !.latestOk = @ \/ f.n = home.started]
             ELSE [home EXCEPT !.error = FailedToLoadCryptoData])
          EXCEPT !.loading = FALSE,
                 !.refreshing = FALSE,
                 !.fetches = @ \ {f}], f)
  /\ HomeFrame

\* The controls that can be pressed: the native alert, while on display,
\* covers the screen.
HomeTouchable == active = "home" /\ ~home.alert

\* lines 146-150
HomeUseEffect ==
  /\ active = "home"
  /\ home.effectPending
  /\ home' = fetchCoins([home EXCEPT !.effectPending = FALSE], FALSE,
                        "direct")
  /\ HomeFrame

\* lines 216-226: Retry is rendered when error && !loading
HomeRetry ==
  /\ HomeTouchable
  /\ home.error # NoError /\ ~home.loading
  /\ home.started < MaxFetches
  /\ home' = fetchCoins(home, FALSE, "direct")
  /\ HomeFrame

\* lines 115-118 and 228-237: the list is rendered when !loading && !error;
\* its refresh control is not pulled while it shows a refresh
HomeHandleRefresh ==
  /\ HomeTouchable
  /\ ~home.loading /\ home.error = NoError
  /\ ~home.refreshing
  /\ home.started < MaxFetches
  /\ home' = fetchCoins([home EXCEPT !.refreshing = TRUE], TRUE, "direct")
  /\ HomeFrame

\* lines 120-125 and 174-178: handleManualRefresh up to its first await
handleManualRefresh ==
  /\ HomeTouchable
  /\ ~home.manualRefreshing
  /\ home.started < MaxFetches
  /\ home' = [home EXCEPT !.manualRefreshing = TRUE, !.manual = "post"]
  /\ HomeFrame

\* lines 126-144: POST /crypto/refresh settles
ManualPostSettled(resp) ==
  /\ active = "home"
  /\ home.manual = "post"
  /\ home' = IF resp = "ok"
               THEN fetchCoins([home EXCEPT !.manual = "fetchCoins"], TRUE,
                               "manual")
               ELSE [home EXCEPT !.alert = TRUE,
                                 !.manualRefreshing = FALSE,
                                 !.manual = "idle"]
  /\ HomeFrame

\* the button of the alert is pressed
HomeDismissAlert ==
  /\ active = "home"
  /\ home.alert
  /\ home' = [home EXCEPT !.alert = FALSE]
  /\ HomeFrame

NextHome ==
  \/ HomeUseEffect
  \/ HomeRetry
  \/ HomeHandleRefresh
  \/ handleManualRefresh
  \/ \E resp \in HomeResponses : ManualPostSettled(resp)
  \/ \E f \in home.fetches, resp \in HomeResponses :
       FetchCoinsSettled(f, resp)
  \/ HomeDismissAlert

(***************************************************************************)
(* The avatar editor (src/unnamed/part_005).  Its numbers are kept as      *)
(* exact fractions n/d in lowest terms; the images followed have sides     *)
(* for which every quotient of the code is such a fraction.  avatar holds  *)
(* the state hooks and refs of lines 50-55 (an absent image, crop or       *)
(* crop rectangle is the empty sequence), the position of pickImage and of *)
(* handleSave, the effects that have not run yet, whether a pan gesture is *)
(* under way, the alert on display, and rect, the crop rectangle last      *)
(* handed to ImageManipulator.manipulateAsync.                             *)
(***************************************************************************)
Rat(n, d) ==
  LET g == Gcd(Abs(n), Abs(d))
  IN IF d < 0 THEN [n |-> (0 - n) \div g, d |-> (0 - d) \div g]
              ELSE [n |-> n \div g, d |-> d \div g]

RatOf(i) == [n |-> i, d |-> 1]

RatAdd(a, b) == Rat(a.n * b.d + b.n * a.d, a.d * b.d)

RatSub(a, b) == Rat(a.n * b.d - b.n * a.d, a.d * b.d)

RatMul(a, b) == Rat(a.n * b.n, a.d * b.d)

RatDiv(a, b) == Rat(a.n * b.d, a.d * b.n)

RatLe(a, b) == a.n * b.d <= b.n * a.d

RatLt(a, b) == a.n * b.d < b.n * a.d

\* Math.max and Math.min of two numbers
RatMax(a, b) == IF RatLe(a, b) THEN b ELSE a

RatMin(a, b) == IF RatLe(a, b) THEN a ELSE b

\* line 100
FrameSize == RatOf(280)

\* lines 86-87: asset.width ?? 1024
OrDefaultSide(side) ==
  IF side.t \in {"undefined", "null"} THEN 1024 ELSE side.v

\* The widths and heights an asset of the picker carries.
AssetSides == {Undefined, Num(420)}

\* The distances, in points, a pan gesture has moved since it began.
PanDistances == {0 - 500, 90}

\* lines 50-55
AvatarInit ==
  [pc |-> "mount", image |-> <<>>, crop |-> <<>>, cropRef |-> <<>>,
   startPos |-> [x |-> RatOf(0), y |-> RatOf(0)], saving |-> FALSE,
   initPending |-> FALSE, refPending |-> FALSE, panning |-> FALSE,
   alert |-> "", save |-> "idle", rect |-> <<>>]

\* lines 101-118: the bounds of the offset along one axis
MinOffset(display) ==
  IF RatLt(FrameSize, display)
    THEN RatSub(FrameSize, display)
    ELSE RatDiv(RatSub(FrameSize, display), RatOf(2))

MaxOffset(display) ==
  IF RatLt(FrameSize, display)
    THEN RatOf(0)
    ELSE RatDiv(RatSub(FrameSize, display), RatOf(2))

\* Math.max(min, Math.min(max, v))
Clamp(min, max, v) == RatMax(min, RatMin(max, v))

\* lines 97-139: the crop state of an image
InitialCrop(image) ==
  LET baseScale == RatDiv(FrameSize,
                          RatMin(RatOf(image.width), RatOf(image.height)))
      displayWidth == RatMul(RatOf(image.width), baseScale)
      displayHeight == RatMul(RatOf(image.height), baseScale)
      minX == MinOffset(displayWidth)
      maxX == MaxOffset(displayWidth)
      minY == MinOffset(displayHeight)
      maxY == MaxOffset(displayHeight)
  IN [frameSize |-> FrameSize, scale |-> baseScale,
      displayWidth |-> displayWidth, displayHeight |-> displayHeight,
      x |-> Clamp(minX, maxX, RatDiv(RatAdd(minX, maxX), RatOf(2))),
      y |-> Clamp(minY, maxY, RatDiv(RatAdd(minY, maxY), RatOf(2))),
      minX |-> minX, maxX |-> maxX, minY |-> minY, maxY |-> maxY]

\* lines 170-184: the crop rectangle handleSave computes
CropRect(image, crop) ==
  LET originX == RatMax(RatOf(0), RatDiv(RatSub(RatOf(0), crop.x), crop.scale))
      originY == RatMax(RatOf(0), RatDiv(RatSub(RatOf(0), crop.y), crop.scale))
      size0 == RatDiv(crop.frameSize, crop.scale)
      size1 == IF RatLt(RatOf(image.width), RatAdd(originX, size0))
                 THEN RatSub(RatOf(image.width), originX)
                 ELSE size0
      size == IF RatLt(RatOf(image.height), RatAdd(originY, size1))
                THEN RatMin(size1, RatSub(RatOf(image.height), originY))
                ELSE size1
  IN [originX |-> originX, originY |-> originY, width |-> size,
      height |-> size]

\* the other screens stay as they are
AvatarFrame == UNCHANGED <<portfolioVars, active, balance, trade, home, auth,
                           password>>

\* lines 93-95: the effect calls pickImage
AvatarMount ==
  /\ active = "avatar"
  /\ avatar.pc = "mount"
  /\ avatar' = [avatar EXCEPT !.pc = "permission"]
  /\ AvatarFrame

\* lines 61-71: requestMediaLibraryPermissionsAsync resolves
PermissionSettled(status) ==
  /\ active = "avatar"
  /\ avatar.pc = "permission"
  /\ avatar' = IF status # "granted"
                 THEN [avatar EXCEPT !.alert = "Permission required",
                                     !.pc = "left"]
                 ELSE [avatar EXCEPT !.pc = "picker"]
  /\ AvatarFrame

\* lines 73-90: launchImageLibraryAsync resolves, canceled or with an asset
PickerSettled(canceled, width, height) ==
  /\ active = "avatar"
  /\ avatar.pc = "picker"
  /\ avatar' = IF canceled
                 THEN [avatar EXCEPT !.pc = "left"]
                 ELSE [avatar EXCEPT
                         !.pc = "editing",
                         !.image = <<[width |-> OrDefaultSide(width),
                                      height |-> OrDefaultSide(height)]>>,
                         !.initPending = TRUE]
  /\ AvatarFrame

\* lines 97-139: the effect on image
InitCropEffect ==
  /\ active = "avatar"
  /\ avatar.initPending
  /\ avatar' = [avatar EXCEPT !.initPending = FALSE,
                              !.crop = <<InitialCrop(avatar.image[1])>>,
                              !.refPending = TRUE]
  /\ AvatarFrame

\* lines 57-59: the effect on crop
SyncCropRef ==
  /\ active = "avatar"
  /\ avatar.refPending
  /\ avatar' = [avatar EXCEPT !.refPending = FALSE, !.cropRef = avatar.crop]
  /\ AvatarFrame

\* The editor is rendered and can be touched (lines 255 and 261-321).
AvatarTouchable ==
  /\ active = "avatar"
  /\ avatar.pc = "editing"
  /\ avatar.image # <<>> /\ avatar.crop # <<>>
  /\ avatar.alert = ""

\* lines 144-148
onPanResponderGrant ==
  /\ AvatarTouchable
  /\ ~avatar.panning
  /\ avatar' = IF avatar.cropRef = <<>>
                 THEN [avatar EXCEPT !.panning = TRUE]
                 ELSE [avatar EXCEPT
                         !.panning = TRUE,
                         !.startPos = [x |-> avatar.cropRef[1].x,
                                       y |-> avatar.cropRef[1].y]]
  /\ AvatarFrame

\* mutant: the offset follows the finger without bounds
onPanResponderMove_Unclamped(dx, dy) ==
  /\ AvatarTouchable
  /\ avatar.panning
  /\ avatar' =
       IF avatar.cropRef = <<>> THEN avatar
       ELSE LET c == avatar.cropRef[1]
            IN [avatar EXCEPT
                  !.crop = <<[c EXCEPT
                                !.x = RatAdd(avatar.startPos.x, RatOf(dx)),
                                !.y = RatAdd(avatar.startPos.y, RatOf(dy))]>>,
                  !.refPending = TRUE]
  /\ AvatarFrame

\* lines 149-160
onPanResponderMove(dx, dy) ==
  /\ AvatarTouchable
  /\ avatar.panning
  /\ avatar' =
       IF avatar.cropRef = <<>> THEN avatar
       ELSE LET c == avatar.cropRef[1]
                nextX == RatAdd(avatar.startPos.x, RatOf(dx))
                nextY == RatAdd(avatar.startPos.y, RatOf(dy))
            IN [avatar EXCEPT
                  !.crop = <<[c EXCEPT
                                !.x = Clamp(c.minX, c.maxX, nextX),
                                !.y = Clamp(c.minY, c.maxY, nextY)]>>,
                  !.refPending = TRUE]
  /\ AvatarFrame

\* the finger is lifted
PanRelease ==
  /\ active = "avatar"
  /\ avatar.panning
  /\ avatar' = [avatar EXCEPT !.panning = FALSE]
  /\ AvatarFrame

\* lines 164-186 and 313-314: handleSave up to its first await
handleSave ==
  /\ AvatarTouchable
  /\ ~avatar.saving
  /\ avatar.save = "idle"
  /\ avatar' = [avatar EXCEPT
                  !.saving = TRUE,
                  !.save = "manipulate",
                  !.rect = <<CropRect(avatar.image[1], avatar.crop[1])>>]
  /\ AvatarFrame

\* lines 186-205 and 236-245: manipulateAsync settles
ManipulateSettled(ok) ==
  /\ active = "avatar"
  /\ avatar.save = "manipulate"
  /\ avatar' = IF ok
                 THEN [avatar EXCEPT !.save = "getItem"]
                 ELSE [avatar EXCEPT !.alert = "Error",
                                     !.saving = FALSE,
                                     !.save = "idle"]
  /\ AvatarFrame

\* lines 207-212: AsyncStorage.getItem resolves, router.replace('/') when
\* the credential is absent
AvatarGetItem ==
  /\ active = "avatar"
  /\ avatar.save = "getItem"
  /\ avatar' = IF authToken = NoToken
                 THEN [avatar EXCEPT !.alert = "Not authenticated",
                                     !.pc = "left",
                                     !.saving = FALSE,
                                     !.save = "idle"]
                 ELSE [avatar EXCEPT !.save = "fetch"]
  /\ AvatarFrame

\* lines 221-245: POST /user/avatar settles
AvatarFetch(ok) ==
  /\ active = "avatar"
  /\ avatar.save = "fetch"
  /\ avatar' = IF ok
                 THEN [avatar EXCEPT !.alert = "Profile picture updated",
                                     !.pc = "left",
                                     !.saving = FALSE,
                                     !.save = "idle"]
                 ELSE [avatar EXCEPT !.alert = "Error",
                                     !.saving = FALSE,
                                     !.save = "idle"]
  /\ AvatarFrame

\* the button of the alert is pressed
AvatarDismissAlert ==
  /\ active = "avatar"
  /\ avatar.alert # ""
  /\ avatar.pc # "left"
  /\ avatar' = [avatar EXCEPT !.alert = ""]
  /\ AvatarFrame

\* lines 262-265: Back
AvatarBack ==
  /\ active = "avatar"
  /\ avatar.pc \in {"permission", "picker", "editing"}
  /\ avatar.alert = ""
  /\ avatar' = [avatar EXCEPT !.pc = "left", !.panning = FALSE]
  /\ AvatarFrame

NextAvatar ==
  \/ AvatarMount
  \/ \E status \in {"granted", "denied"} : PermissionSettled(status)
  \/ \E canceled \in BOOLEAN, width \in AssetSides, height \in AssetSides :
       PickerSettled(canceled, width, height)
  \/ InitCropEffect
  \/ SyncCropRef
  \/ onPanResponderGrant
  \/ \E dx \in PanDistances, dy \in PanDistances : onPanResponderMove(dx, dy)
  \/ PanRelease
  \/ handleSave
  \/ \E ok \in BOOLEAN : ManipulateSettled(ok)
  \/ AvatarGetItem
  \/ \E ok \in BOOLEAN : AvatarFetch(ok)
  \/ AvatarDismissAlert
  \/ AvatarBack
  \/ StoreToken
  \/ RemoveToken

(***************************************************************************)
(* The auth screen (src/unnamed/part_004).  auth holds the state hooks of  *)
(* lines 26-30, the alert on display, the position of handleSubmit with    *)
(* the token of the response it works on, and whether router.replace       *)
(* ('/home') has been called.                                              *)
(***************************************************************************)
\* The token a login or register response carries.
FreshToken == "fresh"

AuthModes == {"login", "register"}

\* lines 26-30
AuthInit ==
  [mode |-> "login", email |-> <<>>, password |-> <<>>,
   confirmPassword |-> <<>>, loading |-> FALSE, alert |-> "",
   submit |-> "idle", token |-> NoToken, navigated |-> FALSE]

\* What POST /auth/login and /auth/register can answer: a rejected fetch,
\* or a status with a body that carries a token or none (a body that is not
\* JSON reads as null, line 59).
AuthResponses ==
  {[kind |-> "reject", ok |-> FALSE, token |-> NoToken]} \cup
  {[kind |-> "json", ok |-> ok, token |-> token] :
     ok \in BOOLEAN, token \in {NoToken, FreshToken}}

\* The texts entered into a field.
AuthTexts == {<<>>, <<"a">>, <<"b">>}

AuthFields == {"email", "password", "confirmPassword"}

\* the other screens stay as they are
AuthFrame == UNCHANGED <<portfolioVars, active, balance, trade, home, avatar,
                         password>>

\* The controls that can be pressed: the screen is mounted and no alert
\* covers it.
AuthTouchable == active = "auth" /\ ~auth.navigated /\ auth.alert = ""

\* lines 162 and 173
setAuthMode(mode) ==
  /\ AuthTouchable
  /\ auth' = [auth EXCEPT !.mode = mode]
  /\ AuthFrame

\* the fields of the form; the confirmation is rendered when registering
setAuthField(field, text) ==
  /\ AuthTouchable
  /\ field = "confirmPassword" => auth.mode = "register"
  /\ auth' = [auth EXCEPT ![field] = text]
  /\ AuthFrame

\* lines 34-56: handleSubmit up to its first await
AuthHandleSubmit(b) ==
  LET isRegister == b.mode = "register"
  IN IF \/ b.email = <<>>
        \/ b.password = <<>>
        \/ isRegister /\ b.confirmPassword = <<>>
       THEN [b EXCEPT !.alert = "Missing info"]
     ELSE IF isRegister /\ b.password # b.confirmPassword
       THEN [b EXCEPT !.alert = "Error"]
     ELSE [b EXCEPT !.loading = TRUE, !.submit = "fetch"]

\* lines 134-137
onPressSubmit ==
  /\ AuthTouchable
  /\ ~auth.loading
  /\ auth' = AuthHandleSubmit(auth)
  /\ AuthFrame

\* lines 52-77: the fetch settles.  A failure ends in the catch block; an
\* OK response with a token awaits setItem, one without a token goes on
\* to router.replace('/home').
AuthFetch(resp) ==
  /\ active = "auth"
  /\ auth.submit = "fetch"
  /\ auth' =
       IF resp.kind = "reject" \/ ~resp.ok
         THEN [auth EXCEPT !.alert = "Error", !.loading = FALSE,
                           !.submit = "idle", !.token = NoToken]
       ELSE IF resp.token # NoToken
         THEN [auth EXCEPT !.submit = "setItem", !.token = resp.token]
         ELSE [auth EXCEPT !.navigated = TRUE, !.loading = FALSE,
                           !.submit = "idle", !.token = NoToken]
  /\ AuthFrame

\* lines 68-77: AsyncStorage.setItem settles; router.replace('/home') once
\* it has resolved, the catch block when it rejects
SetItemSettled(ok) ==
  /\ active = "auth"
  /\ auth.submit = "setItem"
  /\ IF ok
       THEN /\ authToken' = auth.token
            /\ auth' = [auth EXCEPT !.navigated = TRUE, !.loading = FALSE,
                                    !.submit = "idle"]
       ELSE /\ authToken' = authToken
            /\ auth' = [auth EXCEPT !.alert = "Error", !.loading = FALSE,
                                    !.submit = "idle", !.token = NoToken]
  /\ UNCHANGED <<positions, loading, refreshing, error, expandedSymbol,
                 pnlMode, requests, effectPending, crashed, shownLatest,
                 memo, outcome>>
  /\ UNCHANGED <<active, balance, trade, home, avatar, password>>

\* the button of the alert is pressed
AuthDismissAlert ==
  /\ active = "auth"
  /\ auth.alert # ""
  /\ auth' = [auth EXCEPT !.alert = ""]
  /\ AuthFrame

NextAuth ==
  \/ \E mode \in AuthModes : setAuthMode(mode)
  \/ \E field \in AuthFields, text \in AuthTexts : setAuthField(field, text)
  \/ onPressSubmit
  \/ \E resp \in AuthResponses : AuthFetch(resp)
  \/ \E ok \in BOOLEAN : SetItemSettled(ok)
  \/ AuthDismissAlert

(***************************************************************************)
(* Specifications                                                          *)
(***************************************************************************)
\* The screens before their first render.
OtherScreens ==
  /\ balance = BalanceInit
  /\ trade = TradeInit
  /\ home = HomeInit
  /\ avatar = AvatarInit
  /\ auth = AuthInit
  /\ password = PasswordInit

\* The application with the given screen in the foreground.
AppInit(screen) == Init /\ active = screen /\ OtherScreens

Next ==
  \/ UseEffect
  \/ Retry
  \/ handleRefresh
  \/ \E r \in requests : GetItemResolved(r)
  \/ \E r \in requests, resp \in Responses : FetchSettled(r, resp)
  \/ \E mode \in PnlModes : setPnlMode(mode)
  \/ \E symbol \in SymbolsOf(positions) : onToggle(symbol)
  \/ StoreToken
  \/ RemoveToken

Spec == AppInit("portfolio") /\ [][Next]_vars

(***************************************************************************)
(* The screen with its scheduling: the effect runs after the first render, *)
(* AsyncStorage.getItem resolves and fetch settles, each once it is        *)
(* pending.  Every kind of response, with lists of at most one position.   *)
(***************************************************************************)
LoadResponses == {resp \in Responses : Len(resp.positions) <= 1}

NextLoad ==
  \/ UseEffect
  \/ Retry
  \/ handleRefresh
  \/ \E r \in requests : GetItemResolved(r)
  \/ \E r \in requests, resp \in LoadResponses : FetchSettled(r, resp)
  \/ \E mode \in PnlModes : setPnlMode(mode)
  \/ \E symbol \in SymbolsOf(positions) : onToggle(symbol)
  \/ StoreToken
  \/ RemoveToken

SpecBalance == AppInit("balance") /\ [][NextBalance]_vars

SpecTrade == AppInit("trade") /\ [][NextTrade]_vars

SpecAuth == AppInit("auth") /\ [][NextAuth]_vars

SpecAvatar == AppInit("avatar") /\ [][NextAvatar]_vars

SpecHome == AppInit("home") /\ [][NextHome]_vars

\* The screens that send the stored credential.
AuthenticatedScreens == {"portfolio", "balance", "trade", "password"}

\* The inputs of the application as a whole: for each request a failure and
\* a success, for each amount field a valid amount.
AppLoadResponses == {resp \in LoadResponses : resp.positions = <<>>}

AppBalanceResponses == {resp \in BalanceLoadResponses : resp.balance = 0}

AppOrderResponses ==
  {resp \in TradeResponses : resp.amount_coin = Num(1) /\ resp.kind = "json"}

NextApp ==
  \/ UseEffect
  \/ Retry
  \/ handleRefresh
  \/ \E r \in requests : GetItemResolved(r)
  \/ \E r \in requests, resp \in AppLoadResponses : FetchSettled(r, resp)
  \/ \E mode \in PnlModes : setPnlMode(mode)
  \/ BalanceUseEffect
  \/ \E l \in balance.loaders : BalanceLoaderGetItem(l)
  \/ \E l \in balance.loaders, resp \in AppBalanceResponses :
       BalanceLoaderFetch(l, resp)
  \/ onRefresh
  \/ \E mode \in BalanceModes : setMode(mode)
  \/ onChangeText(<<"5">>)
  \/ onPrimaryPress
  \/ \E i \in 1..Len(balance.submits) : SubmitGetItem(i)
  \/ \E i \in 1..Len(balance.submits), resp \in {"notok", "ok"} :
       SubmitFetch(i, resp)
  \/ closeDialog
  \/ TradeUseEffect
  \/ \E l \in trade.loaders : TradeLoaderGetItem(l)
  \/ \E l \in trade.loaders, resp \in TradeLoadResponses :
       TradeLoaderFetch(l, resp)
  \/ TradeOnRefresh
  \/ \E mode \in BuyModes : setBuyMode(mode)
  \/ \E i \in 1..Len(trade.availableCoins) : handleSelectSymbol(i)
  \/ \E text \in TradeTexts : setBuyAmount(text)
  \/ \E text \in TradeTexts : setSellAmount(text)
  \/ onPressBuy
  \/ onPressSell
  \/ \E i \in 1..Len(trade.orders) : OrderGetItem(i)
  \/ \E i \in 1..Len(trade.orders), resp \in AppOrderResponses :
       OrderFetch(i, resp)
  \/ TradeCloseDialog
  \/ NextPassword

\* The application with any one of these screens in the foreground.
SpecApp ==
  /\ \E screen \in AuthenticatedScreens : AppInit(screen)
  /\ [][NextApp]_vars

SpecFair ==
  /\ AppInit("portfolio")
  /\ [][NextLoad]_vars
  /\ WF_vars(UseEffect)
  /\ WF_vars(\E r \in requests : GetItemResolved(r))
  /\ WF_vars(\E r \in requests, resp \in LoadResponses : FetchSettled(r, resp))

(***************************************************************************)
(* The screen against a server whose lists carry amounts at the edge of    *)
(* the exactly representable integers: the same handlers, other responses. *)
(***************************************************************************)
\* Longest list of large amounts a response carries.
AggLen == 3

\* The amounts of a position: small ones, and the largest magnitude up to
\* which every integer is a double.
AmountValues == {1, 3, MaxExact, 0 - MaxExact}

AggSymbols == <<"BTC", "ETH", "SOL", "XRP", "ADA">>

\* A well-typed position whose summed fields all hold v.
AmountPosition(symbol, v) ==
  [PositionBTC EXCEPT !.symbol = symbol,
                      !.current_value_idr = Num(v),
                      !.total_buy_idr = Num(v),
                      !.net_pnl_idr = Num(v),
                      !.broker_cost_basis_idr = Num(v),
                      !.broker_unrealized_pnl_idr = Num(v),
                      !.broker_realized_pnl_idr = Num(v)]

\* The lists of at most AggLen such positions, keyed uniquely by symbol.
AmountLists ==
  UNION {{[i \in 1..n |-> AmountPosition(AggSymbols[i], a[i])] :
            a \in [1..n -> AmountValues]} : n \in 0..AggLen}

\* The successful responses of lines 80-91 carrying these lists.
AmountResponses ==
  {[kind |-> "json", ok |-> TRUE, message |-> "", positions |-> l,
    hasPositions |-> TRUE] : l \in AmountLists}

NextAgg ==
  \/ UseEffect
  \/ handleRefresh
  \/ \E r \in requests : GetItemResolved(r)
  \/ \E r \in requests, resp \in AmountResponses : FetchSettled(r, resp)
  \/ \E mode \in PnlModes : setPnlMode(mode)

SpecAgg == AppInit("portfolio") /\ [][NextAgg]_vars

(***************************************************************************)
(* The screen against a server whose payload need not carry an array: the  *)
(* same handlers, other responses.                                         *)
(***************************************************************************)
\* The responses with a well-typed list or none, and the successful
\* response whose positions field is truthy and not an array.
PayloadResponses ==
  {resp \in Responses : resp.positions \in WellTypedLists}
    \cup {[kind |-> "json", ok |-> TRUE, message |-> "",
           positions |-> NotAList, hasPositions |-> TRUE]}

NextPayload ==
  \/ UseEffect
  \/ Retry
  \/ handleRefresh
  \/ \E r \in requests : GetItemResolved(r)
  \/ \E r \in requests, resp \in PayloadResponses : FetchSettled(r, resp)
  \/ \E mode \in PnlModes : setPnlMode(mode)
  \/ \E symbol \in SymbolsOf(positions) : onToggle(symbol)
  \/ StoreToken
  \/ RemoveToken

SpecPayload == AppInit("portfolio") /\ [][NextPayload]_vars

(***************************************************************************)
(* Properties                                                              *)
(***************************************************************************)
RECURSIVE SumField(_, _)
\* The arithmetic sum of field f over the records of l, last record first.
SumField(l, f) ==
  IF l = <<>> THEN 0
  ELSE l[Len(l)][f].v + SumField(SubSeq(l, 1, Len(l) - 1), f)

\* Every field of F is a number in every record of l.
AllNumbers(l, F) == \A i \in 1..Len(l) : \A f \in F : l[i][f].t = "number"

\* The load has completed and the list is on screen.
Displayed == ListRendered(loading, error) /\ ~effectPending /\ ~crashed

C2_BrokerTotals ==
  LET t == Totals(positions, "BROKER")
  IN /\ AllNumbers(positions, {"broker_cost_basis_idr"})
          => t.base = SumField(positions, "broker_cost_basis_idr")
     /\ AllNumbers(positions, {"broker_unrealized_pnl_idr"})
          => t.pnlValue = SumField(positions, "broker_unrealized_pnl_idr")
     /\ AllNumbers(positions, {"broker_realized_pnl_idr"})
          => t.realizedTotal = SumField(positions, "broker_realized_pnl_idr")

C2_Witness ==
  /\ Displayed
  /\ pnlMode = "BROKER"
  /\ Len(positions) >= 2
  /\ AllNumbers(positions, {"broker_cost_basis_idr",
                            "broker_unrealized_pnl_idr",
                            "broker_realized_pnl_idr"})
  /\ totals.base # 0
  /\ totals.pnlValue # 0
  /\ totals.realizedTotal # 0

\* C3: for a non-empty list totalValue is the sum of current_value over all
\* positions, and it is the same in NET mode and in BROKER mode.
C3_TotalValue ==
  Len(positions) > 0 =>
    /\ AllNumbers(positions, {"current_value_idr"})
         => /\ Totals(positions, "NET").totalValue
                 = SumField(positions, "current_value_idr")
            /\ Totals(positions, "BROKER").totalValue
                 = SumField(positions, "current_value_idr")
    /\ Totals(positions, "NET").totalValue
         = Totals(positions, "BROKER").totalValue

C3_Witness ==
  /\ Displayed
  /\ pnlMode = "BROKER"
  /\ Len(positions) >= 2
  /\ AllNumbers(positions, {"current_value_idr"})
  /\ totals.totalValue # 0
  /\ Totals(positions, "NET").base # Totals(positions, "BROKER").base

\* C4: pnlPercent is (pnlValue / base) * 100 when base > 0 and exactly 0 when
\* base is zero or negative, also when pnlValue is not zero; it is never
\* Infinity or NaN.
C4_PnlPercent ==
  \A mode \in PnlModes :
    LET t == Totals(positions, mode)
    IN /\ t.pnlPercent.k = "finite"
       /\ t.pnlPercent.d > 0
       /\ t.base > 0 =>
            t.pnlPercent.n * t.base = t.pnlValue * 100 * t.pnlPercent.d
       /\ t.base <= 0 => t.pnlPercent = FracZero

\* base = 0 with a non-zero pnlValue in one mode, a positive base with a
\* non-zero percentage in the other
C4_Witness ==
  /\ Displayed
  /\ totals.base = 0
  /\ totals.pnlValue # 0
  /\ \E mode \in PnlModes :
       /\ Totals(positions, mode).base > 0
       /\ Totals(positions, mode).pnlPercent # FracZero

\* C5: for the empty position list totalValue, base, pnlValue, pnlPercent
\* and realizedTotal are all 0, in NET and in BROKER mode.
C5_EmptyList ==
  positions = <<>> =>
    \A mode \in PnlModes :
      Totals(positions, mode) =
        [totalValue |-> 0, base |-> 0, pnlValue |-> 0,
         pnlPercent |-> FracZero, realizedTotal |-> 0]

\* an empty list received after a non-empty one, shown in BROKER mode
C5_Witness ==
  /\ Displayed
  /\ positions = <<>>
  /\ pnlMode = "BROKER"
  /\ expandedSymbol # NoSymbol

\* C6: the screen shows the result of its most recent request: at most one
\* invocation of loadPositions is pending at any time, so whenever none is
\* pending the invocation that returned last is the one that was issued last
\* and no earlier invocation can overwrite its result.
C6_MostRecentRequest ==
  /\ Cardinality(requests) <= 1
  /\ requests = {} => shownLatest

\* a pull-to-refresh that failed after an earlier load had delivered a list
C6_Witness ==
  /\ requests = {}
  /\ ~effectPending
  /\ shownLatest
  /\ positions # <<>>
  /\ error # NoError

\* The totals are those of the list in which field f of record i is
\* replaced by the number n.
ContributesAs(i, f, n) ==
  \A mode \in PnlModes :
    Totals(positions, mode) = Totals([positions EXCEPT ![i][f] = Num(n)], mode)

\* C7 as stated: every field of a position that is missing or not a number
\* contributes 0 to its total, the other positions being accumulated as
\* usual.
C7_NonNumericIsZero ==
  \A i \in 1..Len(positions) : \A f \in SummedFields :
    positions[i][f].t # "number" => ContributesAs(i, f, 0)

\* C7 as amended: a field that is missing, null or a string that is not a
\* numeral contributes 0; a numeric string or a boolean contributes the
\* number it converts to; the other positions are accumulated as usual.
C7_CoercionToZero ==
  \A i \in 1..Len(positions) : \A f \in SummedFields :
    /\ positions[i][f].t \in {"undefined", "null", "string"}
         => ContributesAs(i, f, 0)
    /\ positions[i][f].t \in {"numstr", "boolean"}
         => ContributesAs(i, f, positions[i][f].v)

\* a list of two positions whose first has no net_pnl_idr, shown in NET mode
\* with the second position's P&L in the total
C7_Witness ==
  /\ Displayed
  /\ pnlMode = "NET"
  /\ Len(positions) >= 2
  /\ positions[1].net_pnl_idr = Undefined
  /\ positions[2].net_pnl_idr.t = "number"
  /\ totals.pnlValue = positions[2].net_pnl_idr.v
  /\ totals.pnlValue # 0

\* C8: no render of the screen raises: the totals and every row complete for
\* position records with missing or non-numeric fields, in either mode.
C8_NeverRaises == ~crashed

\* The fields of the accounting view that is not selected.
OtherViewFields(mode) == IF mode = "NET" THEN BrokerFields ELSE NetFields

\* Values a field is overwritten with to probe its influence.
ProbeValues == {Undefined, Null, NumStr(2), Num(0), Num(1), Num(0 - 1)}

\* C9: the row takes pnlValue, pnlPercent and avgEntryPrice from the selected
\* accounting view (net_pnl, net_pnl_percent, net_avg_entry_price in NET
\* mode; broker_unrealized_pnl, broker_unrealized_pnl_percent,
\* broker_avg_entry_price in BROKER mode) and no field of the other view
\* changes anything the row shows.
C9_ViewByMode ==
  \A i \in 1..Len(positions) :
    LET p == positions[i]
        mode == pnlMode
        exp == (expandedSymbol = p.symbol)
        v == PositionRowItem(p, exp, mode)
    IN /\ mode = "NET" =>
            /\ v.pnlValue = p.net_pnl_idr
            /\ v.pnlPercent = p.net_pnl_percent
            /\ v.avgEntry = p.net_avg_entry_price_idr
       /\ mode = "BROKER" =>
            /\ v.pnlValue = p.broker_unrealized_pnl_idr
            /\ v.pnlPercent = p.broker_unrealized_pnl_percent
            /\ v.avgEntry = p.broker_avg_entry_price_idr
       /\ \A f \in OtherViewFields(mode) : \A x \in ProbeValues :
            PositionRowItem([p EXCEPT ![f] = x], exp, mode) = v

\* an expanded row shown in BROKER mode whose two views differ
C9_Witness ==
  /\ Displayed
  /\ pnlMode = "BROKER"
  /\ \E i \in 1..Len(positions) :
       /\ expandedSymbol = positions[i].symbol
       /\ positions[i].net_pnl_idr # positions[i].broker_unrealized_pnl_idr
       /\ positions[i].net_pnl_percent
            # positions[i].broker_unrealized_pnl_percent
       /\ positions[i].net_avg_entry_price_idr
            # positions[i].broker_avg_entry_price_idr

\* C10: a row whose selected average entry price is absent (null or missing)
\* shows no average-entry field, and the totals are those of the same list
\* with the entry price present.
C10_AbsentEntryOmitted ==
  \A i \in 1..Len(rows) :
    rows[i].avgEntry.t \in {"null", "undefined"} =>
      /\ ~rows[i].avgEntryShown
      /\ \A mode \in PnlModes : \A f \in EntryPriceFields :
           Totals([positions EXCEPT ![i][f] = Num(1)], mode)
             = Totals(positions, mode)


\* C11: the sign shown for a P&L value is "+" exactly when the value is >= 0,
\* in the summary card (pnlValue, realizedTotal) and in every row (header
\* and dropdown detail), so that the card and a row showing equal values
\* show the same sign.
C11_SignBuckets ==
  /\ \A c \in 1..Len(summary) :
       /\ summary[c].pnlSign = "+" <=> totals.pnlValue >= 0
       /\ \A k \in 1..Len(summary[c].realized) :
            summary[c].realized[k].sign = "+" <=> totals.realizedTotal >= 0
  /\ \A i \in 1..Len(rows) :
       LET value    == rows[i].pnlValue
           realized == positions[i].broker_realized_pnl_idr
       IN /\ value.t = "number" =>
               /\ rows[i].sign = "+" <=> value.v >= 0
               /\ rows[i].sign = SummarySign(value.v)
               /\ \A k \in 1..Len(rows[i].detail) :
                    rows[i].detail[k].label \in {"P&L (net)", "Unrealized P&L"}
                      => rows[i].detail[k].sign = SummarySign(value.v)
          /\ realized.t = "number" =>
               \A k \in 1..Len(rows[i].detail) :
                 rows[i].detail[k].label = "Realized P&L" =>
                   /\ rows[i].detail[k].sign = "+" <=> realized.v >= 0
                   /\ SummarySign(realized.v) = "+"
                        <=> rows[i].detail[k].sign = "+"

\* BROKER mode with negative totals, one row at break-even and one at a loss
C11_Witness ==
  /\ Displayed
  /\ pnlMode = "BROKER"
  /\ totals.pnlValue < 0
  /\ totals.realizedTotal < 0
  /\ \E i \in 1..Len(rows) : rows[i].pnlValue = Num(0)
  /\ \E i \in 1..Len(rows) :
       /\ rows[i].pnlValue.t = "number"
       /\ rows[i].pnlValue.v < 0
       /\ rows[i].expanded

\* C12 as stated: a P&L of exactly zero is shown with the sign and with the
\* colour of a positive P&L, in the summary card and in a row.
C12_ZeroShownAsGain ==
  /\ \A c \in 1..Len(summary) :
       totals.pnlValue = 0 =>
         /\ summary[c].pnlSign = SummarySign(1)
         /\ summary[c].pnlColor = TotalColor(1)
  /\ \A i \in 1..Len(rows) :
       rows[i].pnlValue = Num(0) =>
         /\ rows[i].sign = Sign(Num(1))
         /\ rows[i].pnlColor = PnlColor(Num(1))

\* C12 as amended: a P&L of exactly zero is shown with the sign of a positive
\* P&L ("+") but in the neutral colour, not in the colour of a gain, in the
\* summary card and in a row.
C12_ZeroSignedNeutral ==
  /\ \A c \in 1..Len(summary) :
       totals.pnlValue = 0 =>
         /\ summary[c].pnlSign = SummarySign(1)
         /\ summary[c].pnlColor = TEXT_MUTED
         /\ summary[c].pnlColor # TotalColor(1)
  /\ \A i \in 1..Len(rows) :
       rows[i].pnlValue = Num(0) =>
         /\ rows[i].sign = Sign(Num(1))
         /\ rows[i].pnlColor = TEXT_MUTED
         /\ rows[i].pnlColor # PnlColor(Num(1))

\* a single position at break-even: the card and the row both show zero
C12_Witness ==
  /\ Displayed
  /\ summary # <<>>
  /\ totals.pnlValue = 0
  /\ \E i \in 1..Len(rows) : rows[i].pnlValue = Num(0)

\* C13: in every state the totals held by the screen, and shown in the
\* summary card, are the aggregation of the current position list under the
\* current mode.
C13_TotalsCurrent ==
  /\ totals = Totals(positions, pnlMode)
  /\ \A c \in 1..Len(summary) :
       summary[c] = SummaryCard(Totals(positions, pnlMode), pnlMode)

\* a list shown in BROKER mode whose BROKER totals differ from its NET totals
C13_Witness ==
  /\ Displayed
  /\ pnlMode = "BROKER"
  /\ Len(positions) >= 2
  /\ Totals(positions, "BROKER") # Totals(positions, "NET")
  /\ memo.pnlMode = "BROKER"

\* C14: a step that switches the mode leaves the position list as it was,
\* and switching back from the state it reaches yields the totals shown
\* before the switch.
C14_ModeSwitchFrame ==
  [][pnlMode' # pnlMode =>
       /\ positions' = positions
       /\ memo'.value = Totals(positions, pnlMode')
       /\ UseMemo(memo', positions', pnlMode).value = memo.value]_vars

\* a non-empty list shown in BROKER mode, the mode the screen does not
\* start in
C14_Witness ==
  /\ Displayed
  /\ pnlMode = "BROKER"
  /\ Len(positions) >= 2
  /\ expandedSymbol \in SymbolsOf(positions)
  /\ Totals(positions, "BROKER").base # Totals(positions, "NET").base

\* C15: the mode is NET initially and always one of NET and BROKER, and in
\* every state of the mounted screen either mode can be selected in one
\* step.
C15_ModeSelectable ==
  /\ pnlMode = "NET"
  /\ [](/\ pnlMode \in PnlModes
        /\ ~crashed => \A mode \in PnlModes : ENABLED setPnlMode(mode))

\* BROKER selected while a request is pending behind the spinner
C15_Witness ==
  /\ pnlMode = "BROKER"
  /\ loading
  /\ \E r \in requests : r.pc = "fetch"
  /\ ~crashed

\* C17: after a load that settled successfully the position list is exactly
\* the list the response carried, or empty when the response carried none;
\* no record of the earlier list survives.
C17_ListReplaced ==
  (outcome.how = "settled" /\ Thrown(outcome.resp) = "") =>
    positions = (IF outcome.resp.hasPositions THEN outcome.resp.positions
                                             ELSE <<>>)

\* a successful reload whose list no longer holds the position that was
\* expanded in the list it replaced
C17_Witness ==
  /\ outcome.how = "settled"
  /\ Thrown(outcome.resp) = ""
  /\ outcome.resp.hasPositions
  /\ positions # <<>>
  /\ expandedSymbol # NoSymbol
  /\ expandedSymbol \notin SymbolsOf(positions)

\* C18: the step in which a load finds the credential absent sets the error
\* and leaves the position list as it was before the load.
C18_CredentialKeepsList ==
  [][(outcome'.how = "credential" /\ outcome.how # "credential") =>
       /\ error' = NotAuthenticated
       /\ error' # NoError
       /\ positions' = positions]_vars

\* a load stopped for want of the credential while a list is held
C18_Witness ==
  /\ outcome.how = "credential"
  /\ authToken = NoToken
  /\ error = NotAuthenticated
  /\ positions # <<>>

\* C19: the error state of a load that found no credential is never the
\* error state of a load whose request failed, whatever the server answered.
C19_Distinguishable ==
  /\ outcome.how = "credential" => error = NotAuthenticated
  /\ (outcome.how = "settled" /\ Thrown(outcome.resp) # "") =>
       error # NotAuthenticated

\* C20: while the last load has failed, no totals are computed from the
\* held list and shown: the summary card is absent.
C20_NoTotalsOnError ==
  error # NoError => summary = <<>>

\* The same records in the order given by the permutation f of the indices.
Reordered(l, f) == [i \in 1..Len(l) |-> l[f[i]]]

\* Sum of the magnitudes of field f over the list.
RECURSIVE SumAbsField(_, _)
SumAbsField(l, f) ==
  IF l = <<>> THEN 0
  ELSE Abs(l[Len(l)][f].v) + SumAbsField(SubSeq(l, 1, Len(l) - 1), f)

\* Every partial sum of every summed field, in every order, is an integer
\* the number type holds exactly.
ExactlySummable(l) ==
  /\ AllNumbers(l, SummedFields)
  /\ \A f \in SummedFields : SumAbsField(l, f) <= MaxExact

\* C16 as stated: the totals of every permutation of the position list
\* equal the totals of the list, in either mode.
C16_OrderInsensitive ==
  \A f \in Permutations(1..Len(positions)) : \A mode \in PnlModes :
    Totals(Reordered(positions, f), mode) = Totals(positions, mode)

\* C16 as amended: the totals of every permutation of the position list
\* equal the totals of the list, in either mode, when the magnitudes of
\* each summed field add up to no more than the largest integer below which
\* all integers are exact (2^53 for a double); the totals shown are those
\* of any order of the list.
C16_OrderInsensitiveWhenExact ==
  ExactlySummable(positions) =>
    \A f \in Permutations(1..Len(positions)) :
      /\ \A mode \in PnlModes :
           Totals(Reordered(positions, f), mode) = Totals(positions, mode)
      /\ totals = Totals(Reordered(positions, f), pnlMode)

\* three positions with differing small amounts, shown in BROKER mode
C16_Witness ==
  /\ Displayed
  /\ pnlMode = "BROKER"
  /\ Len(positions) = 3
  /\ ExactlySummable(positions)
  /\ positions[1].net_pnl_idr # positions[2].net_pnl_idr
  /\ positions[2].net_pnl_idr = positions[3].net_pnl_idr
  /\ totals.pnlValue = 5

\* C21: in every state of the screen the positions state is a list, whatever
\* the payload of the responses received.
C21_PositionsIsList == IsList(positions)

\* C23: every load ends: the spinner and the pull-to-refresh indicator each
\* go away, every started request finishes, and with no request in flight
\* neither is shown.  A screen whose render has thrown shows nothing.
C23_LoadEnds ==
  /\ []((requests = {} /\ ~effectPending) => (~loading /\ ~refreshing))
  /\ loading ~> ~loading
  /\ refreshing ~> (~refreshing \/ crashed)
  /\ (requests # {}) ~> (requests = {} \/ crashed)

\* a pull-to-refresh that failed: both indicators are off, the list is held
C23_Witness ==
  /\ outcome.how = "settled"
  /\ Thrown(outcome.resp) # ""
  /\ requests = {}
  /\ ~loading
  /\ ~refreshing
  /\ positions # <<>>

\* C30: at most one row is expanded; the expanded row can be tapped, which
\* collapses it, and any other row can be tapped, which makes it the
\* expanded one; a step that switches the mode, starts or finishes a load
\* leaves expandedSymbol unchanged.
C30_SingleExpanded ==
  /\ [](/\ Cardinality({i \in 1..Len(rows) : rows[i].expanded}) <= 1
        /\ Displayed =>
             \A symbol \in SymbolsOf(positions) :
               ENABLED (/\ onToggle(symbol)
                        /\ expandedSymbol' = IF symbol = expandedSymbol
                                               THEN NoSymbol ELSE symbol))
  /\ [][/\ (\/ pnlMode' # pnlMode
            \/ positions' # positions
            \/ requests' # requests) => expandedSymbol' = expandedSymbol
        /\ expandedSymbol' # expandedSymbol =>
             \/ expandedSymbol' = NoSymbol
             \/ expandedSymbol' \in SymbolsOf(positions)]_vars

\* two rows on screen, the second one expanded
C30_Witness ==
  /\ Displayed
  /\ Len(rows) = 2
  /\ ~rows[1].expanded
  /\ rows[2].expanded
  /\ pnlMode = "BROKER"

\* The number the handlers read from the amount field on screen.
PrimaryAmount(b) == DigitsToNumber(StripNonDigits(b[AmountField(b.mode)]))

InvalidInputDialog == showDialog("Invalid input", "error")

\* C24: at most one deposit or withdraw is in flight; while one is,
\* submitting is true, the primary button and both mode buttons cannot be
\* pressed and the mode does not change; with none in flight submitting is
\* false.
C24_OneSubmission ==
  /\ [](/\ Len(balance.submits) <= 1
        /\ balance.submits # <<>> =>
             /\ balance.submitting
             /\ ~ENABLED onPrimaryPress
             /\ \A mode \in BalanceModes : ~ENABLED setMode(mode)
        /\ balance.submits = <<>> => ~balance.submitting)
  /\ [][balance.submits # <<>> => balance'.mode = balance.mode]_vars

\* a withdrawal accepted by the server, its reload still running
C24_Witness ==
  /\ Len(balance.submits) = 1
  /\ balance.submits[1].kind = "WITHDRAW"
  /\ balance.submits[1].pc = "reload"
  /\ balance.loaders # {}
  /\ balance.submitting

\* C27: a submission starts only from an amount field whose digits make a
\* number above 0; with any other field the primary button can be pressed,
\* and the press shows the 'Invalid input' dialog and changes nothing else:
\* no submission, the same submitting, balance, transactions and amounts.
C27_InvalidAmount ==
  /\ [](/\ \A i \in 1..Len(balance.submits) : balance.submits[i].amount > 0
        /\ (BalanceTouchable /\ ~balance.submitting
              /\ ~(PrimaryAmount(balance) > 0)) =>
             ENABLED (onPrimaryPress /\ balance'.dialog = InvalidInputDialog))
  /\ [][/\ Len(balance'.submits) > Len(balance.submits) =>
             /\ PrimaryAmount(balance) > 0
             /\ balance'.submits[Len(balance'.submits)].amount
                  = PrimaryAmount(balance)
        /\ (~(PrimaryAmount(balance) > 0) /\ ~balance.dialog.visible
              /\ balance'.dialog = InvalidInputDialog) =>
             balance' = [balance EXCEPT !.dialog = InvalidInputDialog]]_vars

\* the dialog shown for a zero typed into the withdraw field, a balance and
\* a transaction on screen
C27_Witness ==
  /\ balance.dialog = InvalidInputDialog
  /\ balance.mode = "WITHDRAW"
  /\ balance.withdrawAmount = <<"0">>
  /\ balance.depositAmount = <<"1", ".", "0", "0", "0">>
  /\ balance.idrBalance = 50
  /\ balance.transactions # <<>>
  /\ balance.submits = <<>>

\* The fetch of the order in flight settles in this step.
OrderSettles ==
  /\ trade.orders # <<>>
  /\ trade.orders[1].pc = "fetch"
  /\ trade'.orders = <<>> \/ trade'.orders[1].pc # "fetch"

\* C29: when the response to a buy or a sell carries an OK status, the
\* 'Trade executed' success dialog is shown, the amount inputs of that
\* action are empty, the reload of portfolio, trades and symbols is running
\* and the order waits for it; tradeLoading is false once no order is in
\* flight.
C29_AcceptedTrade ==
  /\ [](trade.orders = <<>> => ~trade.tradeLoading)
  /\ [][(OrderSettles /\ trade'.accepted) =>
          /\ trade'.dialog = showDialog("Trade executed", "success")
          /\ IF trade.orders[1].kind = "BUY"
               THEN trade'.spendIdr = <<>> /\ trade'.buyAmountCoin = <<>>
               ELSE trade'.sellAmount = <<>>
          /\ trade'.orders # <<>>
          /\ trade'.orders[1].pc = "reload"
          /\ {l.fn : l \in {o \in trade'.loaders : o.owner = "order"}}
               = {"loadPortfolio", "loadTrades", "loadSymbols"}]_vars

\* The number of entries of a sequence of calls that wait for their fetch.
Fetching(calls) == Len(SelectSeq(calls, LAMBDA c : c.pc = "fetch"))

\* The requests to authenticated endpoints in flight: the fetches of
\* loadPositions, loadBalances, loadTransactions, handleDeposit,
\* handleWithdraw, loadPortfolio, loadTrades, handleBuy, handleSell and the
\* change-password submit.
AuthenticatedFetches ==
  Cardinality({r \in requests : r.pc = "fetch"})
  + Cardinality({l \in balance.loaders : l.pc = "fetch"})
  + Fetching(balance.submits)
  + Cardinality({l \in trade.loaders :
                   l.pc = "fetch" /\ l.fn # "loadSymbols"})
  + Fetching(trade.orders)
  + Fetching(password.submits)

\* the call at the head of a sequence of calls reads the credential in this
\* step
HeadReadsToken(calls, calls2) ==
  calls # <<>> /\ calls[1].pc = "getItem" /\ calls2 # calls

\* C22: in a step taken while authToken is absent no request to an
\* authenticated endpoint is added to those in flight; a function that
\* reads the absent credential returns in that step without a request, and
\* the busy flag it works under is false: loading for loadPositions and
\* loadPortfolio, submitting for a deposit, a withdrawal and a password
\* change, tradeLoading for a buy and a sell, and the loading of the balance
\* screen once both of its loaders have returned.
C22_NoFetchWithoutToken ==
  [][authToken = NoToken =>
       /\ AuthenticatedFetches' <= AuthenticatedFetches
       /\ (\E r \in requests : r.pc = "getItem" /\ r \notin requests') =>
            ~loading'
       /\ (balance.loaders # {} /\ balance'.loaders = {}) =>
            ~balance'.loading
       /\ HeadReadsToken(balance.submits, balance'.submits) =>
            balance'.submits = <<>> /\ ~balance'.submitting
       /\ (\E l \in trade.loaders :
             l.fn = "loadPortfolio" /\ l.pc = "getItem"
               /\ l \notin trade'.loaders) =>
            ~trade'.loading
       /\ HeadReadsToken(trade.orders, trade'.orders) =>
            trade'.orders = <<>> /\ ~trade'.tradeLoading
       /\ HeadReadsToken(password.submits, password'.submits) =>
            password'.submits = <<>> /\ ~password'.submitting]_vars

\* the credential is absent and a function of each kind has returned on
\* reading it: the screen in the foreground shows it, no request is in
\* flight
C22_Witness ==
  /\ authToken = NoToken
  /\ AuthenticatedFetches = 0
  /\ \/ active = "portfolio" /\ error = NotAuthenticated /\ requests = {}
        /\ ~effectPending
     \/ active = "balance" /\ balance.dialog.visible
        /\ balance.dialog.title = "Not authenticated"
        /\ balance.error = NotAuthenticated /\ balance.loaders = {}
     \/ active = "trade" /\ trade.dialog.visible
        /\ trade.dialog.title = "Not authenticated"
        /\ trade.portfolioError = NotAuthenticated /\ trade.loaders = {}
     \/ active = "password" /\ password.alert = "Not authenticated"

\* C25: once no fetchCoins and no manual refresh is in flight, and the
\* call of fetchCoins started last has delivered a list, the coins and
\* lastUpdated on screen are the ones returned to that call; and loading is
\* false only when every fetchCoins in flight is a silent one.
C25_LatestFetchWins ==
  /\ (home.fetches = {} /\ home.manual = "idle" /\ home.latestOk) =>
       home.coins = home.started /\ home.lastUpdated = home.started
  /\ ~home.loading => \A f \in home.fetches : f.silent

\* C26: whenever the editor has a crop state, its offset lies within its
\* bounds and the displayed image covers the crop frame on both axes; and
\* the crop rectangle computed by handleSave is a square with a positive
\* side that lies inside the image.
C26_CropInsideImage ==
  /\ avatar.crop # <<>> =>
       LET c == avatar.crop[1]
       IN /\ RatLe(c.minX, c.x) /\ RatLe(c.x, c.maxX)
          /\ RatLe(c.minY, c.y) /\ RatLe(c.y, c.maxY)
          /\ RatLe(c.x, RatOf(0))
          /\ RatLe(c.frameSize, RatAdd(c.x, c.displayWidth))
          /\ RatLe(c.y, RatOf(0))
          /\ RatLe(c.frameSize, RatAdd(c.y, c.displayHeight))
  /\ avatar.rect # <<>> =>
       LET r == avatar.rect[1]
           image == avatar.image[1]
       IN /\ RatLe(RatOf(0), r.originX)
          /\ RatLe(RatOf(0), r.originY)
          /\ r.width = r.height
          /\ RatLt(RatOf(0), r.width)
          /\ RatLe(RatAdd(r.originX, r.width), RatOf(image.width))
          /\ RatLe(RatAdd(r.originY, r.height), RatOf(image.height))

\* a 1024 x 420 image dragged to its left edge and saved: the crop is the
\* right-hand square of the image
C26_Witness ==
  /\ avatar.image = <<[width |-> 1024, height |-> 420]>>
  /\ avatar.crop # <<>>
  /\ avatar.crop[1].x = avatar.crop[1].minX
  /\ avatar.rect # <<>>
  /\ avatar.rect[1].originX = RatOf(1024 - 420)
  /\ avatar.rect[1].width = RatOf(420)

\* C28: in the step in which handleSubmit calls router.replace('/home')
\* the stored authToken is the token of the response it worked on; and a
\* step that ends handleSubmit without navigation leaves the stored token
\* as it was.
C28_NavigateAfterStore ==
  [][/\ (~auth.navigated /\ auth'.navigated) =>
          authToken' # NoToken /\ authToken' = auth'.token
     /\ (auth.submit # "idle" /\ auth'.submit = "idle" /\ ~auth'.navigated) =>
          authToken' = authToken]_vars

====
